---------------------------- MODULE Spec2Model ----------------------------
(***************************************************************************)
(* Authentication subsystem of the community management API:                *)
(* AuthController / AuthService / UserRepository and the routes             *)
(* behind the authenticate gate.                                             *)
(*                                                                           *)
(* Strings are sequences of one-character strings, so that trimming and the *)
(* validators are computed on the characters.  An optional value (a row or  *)
(* null, a property or undefined) is a sequence of length 0 or 1.           *)
(***************************************************************************)
EXTENDS Integers, Sequences, FiniteSets, TLC

VARIABLES
    users,      \* the users table: a sequence of rows, row i has id i
    now,        \* the clock (CURRENT_TIMESTAMP, and the JWT clock)
    cfg,        \* authConfig.jwt: the two signing secrets
    call,       \* the request slots: each request with its position and locals
    held,       \* the client's token store: the last access and refresh token returned
    adminOps    \* directory changes made outside the authentication core

vars == <<users, now, cfg, call, held, adminOps>>

---------------------------------------------------------------------------
(* Bounds of the model *)

MaxInFlight == 1
MaxRacing == 2
MaxAdminOps == 1
MaxUsers == 2

---------------------------------------------------------------------------
(* Optional values *)

None == <<>>
Some(x) == <<x>>

(* obj.key of a JavaScript object: undefined (None) when the key is absent *)
Prop(obj, key) == IF key \in DOMAIN obj THEN Some(obj[key]) ELSE None

---------------------------------------------------------------------------
(* Input validation: utils/validation.js *)

Whitespace == {" ", "\t", "\n"}

Lower == {"a","b","c","d","e","f","g","h","i","j","k","l","m",
          "n","o","p","q","r","s","t","u","v","w","x","y","z"}
Upper == {"A","B","C","D","E","F","G","H","I","J","K","L","M",
          "N","O","P","Q","R","S","T","U","V","W","X","Y","Z"}
Digit == {"0","1","2","3","4","5","6","7","8","9"}

(* [a-zA-Z0-9_-] *)
UsernameChar == Lower \cup Upper \cup Digit \cup {"_", "-"}

RECURSIVE TrimLeft(_)
TrimLeft(s) ==
    IF s # <<>> /\ Head(s) \in Whitespace THEN TrimLeft(Tail(s)) ELSE s

RECURSIVE TrimRight(_)
TrimRight(s) ==
    IF s # <<>> /\ s[Len(s)] \in Whitespace
    THEN TrimRight(SubSeq(s, 1, Len(s) - 1))
    ELSE s

(* sanitizeInput: '' for a falsy input, input.trim() otherwise *)
sanitizeInput(input) ==
    IF input = <<>> THEN <<>> ELSE TrimRight(TrimLeft(input))

(* [^\s@]+ over s[from..to] *)
NoWsAt(s, from, to) ==
    /\ from <= to
    /\ \A k \in from..to : s[k] \notin Whitespace \cup {"@"}

MaxEmailLen == 255

(* /^[^\s@]+@[^\s@]+\.[^\s@]+$/ and length <= 255 *)
isValidEmail(email) ==
    /\ email # <<>>
    /\ \E i \in 1..Len(email) : \E j \in 1..Len(email) :
          /\ email[i] = "@"
          /\ email[j] = "."
          /\ i < j
          /\ NoWsAt(email, 1, i - 1)
          /\ NoWsAt(email, i + 1, j - 1)
          /\ NoWsAt(email, j + 1, Len(email))
    /\ Len(email) <= MaxEmailLen

MinPasswordLen == 8

(* isValidPassword(password).valid *)
isValidPassword(password) ==
    /\ password # <<>>
    /\ ~(Len(password) < MinPasswordLen)

MinUsernameLen == 3
MaxUsernameLen == 100

(* /^[a-zA-Z0-9_-]{3,100}$/ *)
isValidUsername(username) ==
    /\ username # <<>>
    /\ Len(username) >= MinUsernameLen
    /\ Len(username) <= MaxUsernameLen
    /\ \A k \in 1..Len(username) : username[k] \in UsernameChar

---------------------------------------------------------------------------
(* Identity Directory: UserRepository over the users and roles tables *)

(* roles.id -> roles.role_name; 5 is the 'viewer' role *)
Roles == (1 :> "admin") @@ (5 :> "viewer")

DefaultRoleId == 5

(* !x for an optional number: undefined, null and 0 are falsy *)
Falsy(x) == x = None \/ x[1] = 0

(* x || d for an optional number *)
OrElse(x, d) == IF Falsy(x) THEN d ELSE x[1]

(* x || null for an optional number *)
OrNull(x) == IF Falsy(x) THEN None ELSE x

(* the columns of a row other than key *)
WithoutKey(row, key) == [f \in DOMAIN row \ {key} |-> row[f]]

(* LEFT JOIN roles r ON u.role_id = r.id: r.role_name, or null *)
JoinRole(row) ==
    [f \in DOMAIN row \cup {"role_name"} |->
        IF f = "role_name"
        THEN (IF row.role_id \in DOMAIN Roles THEN Some(Roles[row.role_id]) ELSE None)
        ELSE row[f]]

Live(row) == row.deleted_at = None

(* findByEmail: the joined rows WHERE u.email = $1 AND u.deleted_at IS NULL *)
findByEmail(email) ==
    { JoinRole(users[i]) : i \in { k \in DOMAIN users :
                                     users[k].email = email /\ Live(users[k]) } }

(* findByUsername: WHERE u.username = $1 AND u.deleted_at IS NULL *)
findByUsername(username) ==
    { JoinRole(users[i]) : i \in { k \in DOMAIN users :
                                     users[k].username = username /\ Live(users[k]) } }

(* findById without the deleted_at filter: soft-deleted rows are returned too *)
findByIdAnyRow(id) ==
    { WithoutKey(JoinRole(users[i]), "password_hash") :
        i \in { k \in DOMAIN users : users[k].id = id } }

(* findById: WHERE u.id = $1 AND u.deleted_at IS NULL; password_hash is not selected *)
findById(id) ==
    { WithoutKey(JoinRole(users[i]), "password_hash") :
        i \in { k \in DOMAIN users : users[k].id = id /\ Live(users[k]) } }

(* result.rows[0] || null: any of the rows (the queries have no ORDER BY) *)
FirstRow(rows) == IF rows = {} THEN {None} ELSE { Some(r) : r \in rows }

(* emailExists / usernameExists: result.rows.length > 0 *)
emailExists(email) ==
    \E k \in DOMAIN users : users[k].email = email /\ Live(users[k])

usernameExists(username) ==
    \E k \in DOMAIN users : users[k].username = username /\ Live(users[k])

(* the row an INSERT of userData stores under the serial id *)
Row(id, userData) ==
    [ id              |-> id,
      username        |-> userData.username,
      email           |-> userData.email,
      password_hash   |-> userData.passwordHash,
      role_id         |-> userData.roleId,
      municipality_id |-> OrNull(userData.municipalityId),
      is_active       |-> TRUE,
      last_login      |-> None,
      deleted_at      |-> None ]

(* create: the row INSERTed (is_active true, the other columns defaulted) *)
NewRow(userData) == Row(Len(users) + 1, userData)

(* create: RETURNING id, username, email, role_id, municipality_id, is_active *)
Returning(row) ==
    [ f \in {"id", "username", "email", "role_id", "municipality_id", "is_active"}
        |-> row[f] ]

(* updateLastLogin: UPDATE users SET last_login = CURRENT_TIMESTAMP WHERE id = $1 *)
updateLastLogin(userId) ==
    [ k \in DOMAIN users |->
        IF users[k].id = userId
        THEN [users[k] EXCEPT !.last_login = Some(now)]
        ELSE users[k] ]

---------------------------------------------------------------------------
(* Credential Hasher: bcrypt *)

Salts == {"saltA", "saltB"}

(* bcrypt reads the first 72 bytes of the password; the passwords here are ASCII *)
BcryptMaxBytes == 72

(* the digest bcrypt computes from a password and a salt *)
bcryptDigest(password, salt) ==
    << salt, SubSeq(password, 1, IF Len(password) < BcryptMaxBytes
                                 THEN Len(password) ELSE BcryptMaxBytes) >>

(* hashPassword: bcrypt.hash, the salt drawn by the library *)
hashPassword(password, salt) ==
    [salt |-> salt, digest |-> bcryptDigest(password, salt)]

(* comparePassword: bcrypt.compare recomputes the digest with the stored salt *)
comparePassword(password, hash) ==
    bcryptDigest(password, hash.salt) = hash.digest

---------------------------------------------------------------------------
(* Token Codec: jsonwebtoken with authConfig.jwt *)

AccessExpiresIn == 1
RefreshExpiresIn == 2

(* jwt.sign(payload, secret, {expiresIn}) at time t *)
jwtSign(payload, secret, expiresIn, t) ==
    [ wellFormed |-> TRUE,
      payload    |-> payload @@ [iat |-> t, exp |-> t + expiresIn],
      sig        |-> secret ]

(* jwt.verify with the expiry compared by > : a token still verifies at its exp *)
jwtVerifyLate(token, secret, t) ==
    IF ~token.wellFormed \/ token.sig # secret
    THEN [ok |-> FALSE, name |-> "JsonWebTokenError", decoded |-> <<>>]
    ELSE IF t > token.payload.exp
    THEN [ok |-> FALSE, name |-> "TokenExpiredError", decoded |-> <<>>]
    ELSE [ok |-> TRUE, name |-> "", decoded |-> token.payload]

(* jwt.verify(token, secret) at time t: the structure, then the signature, then exp *)
jwtVerify(token, secret, t) ==
    IF ~token.wellFormed \/ token.sig # secret
    THEN [ok |-> FALSE, name |-> "JsonWebTokenError", decoded |-> <<>>]
    ELSE IF t >= token.payload.exp
    THEN [ok |-> FALSE, name |-> "TokenExpiredError", decoded |-> <<>>]
    ELSE [ok |-> TRUE, name |-> "", decoded |-> token.payload]

(* the payload with the role claims fixed to the default role *)
AccessPayloadDefaultRole(user) ==
    [ userId         |-> user.id,
      username       |-> user.username,
      email          |-> user.email,
      roleId         |-> DefaultRoleId,
      roleName       |-> Some(Roles[DefaultRoleId]),
      municipalityId |-> user.municipality_id,
      type           |-> "access" ]

(* the payload generateAccessToken signs *)
AccessPayload(user) ==
    [ userId         |-> user.id,
      username       |-> user.username,
      email          |-> user.email,
      roleId         |-> user.role_id,
      roleName       |-> user.role_name,
      municipalityId |-> user.municipality_id,
      type           |-> "access" ]

generateAccessToken(user) ==
    jwtSign(AccessPayload(user), cfg.accessSecret, AccessExpiresIn, now)

RefreshPayload(user) ==
    [ userId |-> user.id,
      type   |-> "refresh" ]

generateRefreshToken(user) ==
    jwtSign(RefreshPayload(user), cfg.refreshSecret, RefreshExpiresIn, now)

(* a verification that looks the account up: a token whose account is no longer *)
(* live and active is refused                                                   *)
verifyAccessTokenOfLiveAccount(token) ==
    IF /\ jwtVerify(token, cfg.accessSecret, now).ok
       /\ "userId" \in DOMAIN token.payload
       /\ ~\E k \in DOMAIN users : /\ users[k].id = token.payload.userId
                                   /\ users[k].deleted_at = None
                                   /\ users[k].is_active
    THEN [ok |-> FALSE, name |-> "JsonWebTokenError", decoded |-> <<>>]
    ELSE jwtVerify(token, cfg.accessSecret, now)

verifyAccessToken(token) == jwtVerify(token, cfg.accessSecret, now)

verifyRefreshToken(token) == jwtVerify(token, cfg.refreshSecret, now)

(* password_hash deleted from the argument itself, which is then returned *)
sanitizeUserInPlace(user) ==
    [ user      |-> WithoutKey(user, "password_hash"),
      sanitized |-> WithoutKey(user, "password_hash") ]

(* a call of sanitizeUser: the argument after the call, and the object returned *)
(* (const sanitized = { ...user }; delete sanitized.password_hash)              *)
sanitizeUserCall(user) ==
    [ user      |-> user,
      sanitized |-> WithoutKey(user, "password_hash") ]

(* the argument returned as it is *)
sanitizeUserKeepsHash(user) == user

(* sanitizeUser: what the call returns *)
sanitizeUser(user) == sanitizeUserCall(user).sanitized

---------------------------------------------------------------------------
(* Requests: one record per request slot *)

(* the request slots of the deployment *)
Calls == DOMAIN call

Idle ==
    [ op |-> "none", pc |-> "idle", in |-> <<>>, at |-> 0,
      user |-> None, emailExists |-> None, usernameExists |-> None,
      passwordHash |-> None, created |-> None, decoded |-> None,
      reqUser |-> None, next |-> FALSE, stages |-> <<>>, sends |-> 0,
      log |-> <<>>, fault |-> FALSE, err |-> None, resp |-> None ]

NewCall(op, pc, in) == [Idle EXCEPT !.op = op, !.pc = pc, !.in = in, !.at = now]

Free(c) == call[c].pc \in {"idle", "done"}

(* a new request takes the first slot that holds no request in flight *)
Accepts(c) == Free(c) /\ \A d \in Calls : d < c => ~Free(d)

(* the slots once the request of slot c has moved to rec: the other requests in *)
(* flight stay as they are, the responses sent earlier are forgotten           *)
Update(c, rec) ==
    [ d \in Calls |-> IF d = c THEN rec
                      ELSE IF call[d].pc = "done" THEN Idle
                      ELSE call[d] ]

Response(http, body) == [http |-> http, body |-> body]

ErrorBody(message, code) ==
    [status |-> "error", message |-> message, code |-> code]

(* res.status(..).json(..): the request is answered *)
Send(rec, response) ==
    [rec EXCEPT !.pc = "done", !.resp = Some(response), !.sends = @ + 1]

Called(rec, what) == [rec EXCEPT !.log = Append(@, what)]

(* the errors the service and its collaborators throw *)
Error(message) == [name |-> "Error", message |-> message]
DirectoryFault == [name |-> "Error", message |-> "Connection terminated unexpectedly"]
NullDereference == [name |-> "TypeError", message |-> "Cannot read properties of null"]
JwtError(name) == [name |-> name, message |-> "jwt"]

---------------------------------------------------------------------------
(* AuthController.register / AuthService.register *)

(* the catch block of AuthController.register *)
registerCatch(error) ==
    IF error.message = "Email already registered" \/ error.message = "Username already taken"
    THEN Response(400, ErrorBody(error.message, "DUPLICATE_USER"))
    ELSE Response(500, ErrorBody("Registration failed", "REGISTRATION_ERROR"))

RegisterThrow(rec, error) ==
    Send([rec EXCEPT !.err = Some(error)], registerCatch(error))

(* AuthController.register up to the call of authService.register *)
registerValidate(body) ==
    LET rec == NewCall("register", "exists", body)
        sanitizedUsername == sanitizeInput(body.username)
        sanitizedEmail == sanitizeInput(body.email)
    IN  IF body.username = <<>> \/ body.email = <<>> \/ body.password = <<>>
        THEN Send(rec, Response(400,
                 ErrorBody("Missing required fields", "MISSING_FIELDS")
                   @@ [required |-> <<"username", "email", "password">>]))
        ELSE IF ~isValidEmail(sanitizedEmail)
        THEN Send(rec, Response(400, ErrorBody("Invalid email format", "INVALID_EMAIL")))
        ELSE IF ~isValidUsername(sanitizedUsername)
        THEN Send(rec, Response(400, ErrorBody(
                 "Invalid username. Must be 3-100 characters, alphanumeric with underscore or hyphen.",
                 "INVALID_USERNAME")))
        ELSE IF ~isValidPassword(body.password)
        THEN Send(rec, Response(400,
                 ErrorBody("Password must be at least 8 characters long", "INVALID_PASSWORD")))
        ELSE [rec EXCEPT !.in = [body EXCEPT !.username = sanitizedUsername,
                                             !.email = sanitizedEmail]]

(* a registration that looks at the answer of usernameExists only *)
registerAfterExistsUsernameOnly(rec) ==
    IF rec.emailExists = None \/ rec.usernameExists = None
    THEN rec
    ELSE IF rec.usernameExists[1]
    THEN RegisterThrow(rec, Error("Username already taken"))
    ELSE [rec EXCEPT !.pc = "hash"]

(* a registration that looks at the answer of usernameExists first *)
registerAfterExistsUsernameFirst(rec) ==
    IF rec.emailExists = None \/ rec.usernameExists = None
    THEN rec
    ELSE IF rec.usernameExists[1]
    THEN RegisterThrow(rec, Error("Username already taken"))
    ELSE IF rec.emailExists[1]
    THEN RegisterThrow(rec, Error("Email already registered"))
    ELSE [rec EXCEPT !.pc = "hash"]

(* AuthService.register after Promise.all resolved, up to the await of hashPassword *)
registerAfterExists(rec) ==
    IF rec.emailExists = None \/ rec.usernameExists = None
    THEN rec
    ELSE IF rec.emailExists[1]
    THEN RegisterThrow(rec, Error("Email already registered"))
    ELSE IF rec.usernameExists[1]
    THEN RegisterThrow(rec, Error("Username already taken"))
    ELSE [rec EXCEPT !.pc = "hash"]

(* the userData AuthService.register hands to userRepository.create *)
registerUserData(rec) ==
    [ username       |-> rec.in.username,
      email          |-> rec.in.email,
      passwordHash   |-> rec.passwordHash[1],
      roleId         |-> OrElse(rec.in.roleId, DefaultRoleId),
      municipalityId |-> rec.in.municipalityId ]

(* AuthService.register after findById resolved, and the 201 response *)
registerFinish(rec, fullUser) ==
    IF fullUser = None
    THEN RegisterThrow(rec, NullDereference)
    ELSE Send([rec EXCEPT !.user = Some(sanitizeUserCall(fullUser[1]).user)],
              Response(201,
                [ status  |-> "success",
                  message |-> "User registered successfully",
                  data    |-> [ user         |-> sanitizeUser(fullUser[1]),
                                accessToken  |-> generateAccessToken(fullUser[1]),
                                refreshToken |-> generateRefreshToken(fullUser[1]) ] ]))

(* the client's store after the response of rec: the tokens of a successful *)
(* response replace the stored ones                                         *)
Stored(rec) ==
    IF rec.resp = None \/ rec.resp[1].body.status # "success"
       \/ "data" \notin DOMAIN rec.resp[1].body
    THEN held
    ELSE LET data == rec.resp[1].body.data
         IN  [ accessToken  |-> IF "accessToken" \in DOMAIN data
                                THEN Some(data.accessToken) ELSE held.accessToken,
               refreshToken |-> IF "refreshToken" \in DOMAIN data
                                THEN Some(data.refreshToken) ELSE held.refreshToken ]

(* the register calls that have not yet reached their INSERT *)
PendingCreates ==
    Cardinality({ c \in Calls : call[c].op = "register"
                                 /\ call[c].pc \in {"exists", "hash", "create"} })

RegisterRequest(c, body) ==
    /\ Accepts(c)
    /\ Len(users) + PendingCreates < MaxUsers
    /\ call' = Update(c, registerValidate(body))
    /\ UNCHANGED <<users, now, cfg, held, adminOps>>

RegisterEmailExists(c) ==
    /\ call[c].op = "register" /\ call[c].pc = "exists"
    /\ call[c].emailExists = None
    /\ \/ call' = Update(c, registerAfterExists(
                     [Called(call[c], "emailExists") EXCEPT
                         !.emailExists = Some(emailExists(call[c].in.email))]))
       \/ call' = Update(c, RegisterThrow(
                     [Called(call[c], "emailExists") EXCEPT !.fault = TRUE], DirectoryFault))
    /\ UNCHANGED <<users, now, cfg, held, adminOps>>

RegisterUsernameExists(c) ==
    /\ call[c].op = "register" /\ call[c].pc = "exists"
    /\ call[c].usernameExists = None
    /\ \/ call' = Update(c, registerAfterExists(
                     [Called(call[c], "usernameExists") EXCEPT
                         !.usernameExists = Some(usernameExists(call[c].in.username))]))
       \/ call' = Update(c, RegisterThrow(
                     [Called(call[c], "usernameExists") EXCEPT !.fault = TRUE], DirectoryFault))
    /\ UNCHANGED <<users, now, cfg, held, adminOps>>

RegisterHash(c) ==
    /\ call[c].op = "register" /\ call[c].pc = "hash"
    /\ \E salt \in Salts :
          call' = Update(c, [Called(call[c], "hashPassword") EXCEPT
                         !.pc = "create",
                         !.passwordHash = Some(hashPassword(call[c].in.password, salt))])
    /\ UNCHANGED <<users, now, cfg, held, adminOps>>

RegisterCreate(c) ==
    /\ call[c].op = "register" /\ call[c].pc = "create"
    /\ \/ /\ users' = Append(users, NewRow(registerUserData(call[c])))
          /\ call' = Update(c, [Called(call[c], "create") EXCEPT
                            !.pc = "findById",
                            !.created = Some(Returning(NewRow(registerUserData(call[c]))))])
       \/ /\ call' = Update(c, RegisterThrow(
                        [Called(call[c], "create") EXCEPT !.fault = TRUE], DirectoryFault))
          /\ UNCHANGED users
    /\ UNCHANGED <<now, cfg, held, adminOps>>

(* a registration that takes back the row it created when the re-fetch fails *)
RegisterFindByIdRollingBack(c) ==
    /\ call[c].op = "register" /\ call[c].pc = "findById"
    /\ \/ \E fullUser \in FirstRow(findById(call[c].created[1].id)) :
             call' = Update(c, registerFinish(Called(call[c], "findById"), fullUser))
       \/ call' = Update(c, RegisterThrow(
                     [Called(call[c], "findById") EXCEPT !.fault = TRUE], DirectoryFault))
    /\ held' = Stored(call'[c])
    /\ users' = IF call'[c].resp[1].http = 201
                THEN users
                ELSE [users EXCEPT ![call[c].created[1].id].deleted_at = Some(now)]
    /\ UNCHANGED <<now, cfg, adminOps>>

RegisterFindById(c) ==
    /\ call[c].op = "register" /\ call[c].pc = "findById"
    /\ \/ \E fullUser \in FirstRow(findById(call[c].created[1].id)) :
             call' = Update(c, registerFinish(Called(call[c], "findById"), fullUser))
       \/ call' = Update(c, RegisterThrow(
                     [Called(call[c], "findById") EXCEPT !.fault = TRUE], DirectoryFault))
    /\ held' = Stored(call'[c])
    /\ UNCHANGED <<users, now, cfg, adminOps>>

---------------------------------------------------------------------------
(* AuthController.login / AuthService.login *)

(* the catch block of AuthController.login *)
loginCatch(error) ==
    IF error.message = "Invalid credentials" \/ error.message = "Account is inactive"
    THEN Response(401, ErrorBody(error.message, "AUTHENTICATION_FAILED"))
    ELSE Response(500, ErrorBody("Login failed", "LOGIN_ERROR"))

LoginThrow(rec, error) ==
    Send([rec EXCEPT !.err = Some(error)], loginCatch(error))

(* AuthController.login up to the call of authService.login *)
loginValidate(body) ==
    LET rec == NewCall("login", "findByEmail", body)
    IN  IF body.login = <<>> \/ body.password = <<>>
        THEN Send(rec, Response(400,
                 ErrorBody("Missing required fields", "MISSING_FIELDS")
                   @@ [required |-> <<"login", "password">>]))
        ELSE [rec EXCEPT !.in = [body EXCEPT !.login = sanitizeInput(body.login)]]

(* a login that tells an unknown identifier from a wrong password *)
loginAfterLookupLeaky(rec, user) ==
    IF user = None
    THEN LoginThrow(rec, Error("User not found"))
    ELSE IF ~user[1].is_active
    THEN LoginThrow([rec EXCEPT !.user = user], Error("Account is inactive"))
    ELSE [rec EXCEPT !.user = user, !.pc = "compare"]

(* a login that verifies the password without looking at the activation flag *)
loginAfterLookupAnyAccount(rec, user) ==
    IF user = None
    THEN LoginThrow(rec, Error("Invalid credentials"))
    ELSE [rec EXCEPT !.user = user, !.pc = "compare"]

(* AuthService.login from the resolved lookup to the await of comparePassword *)
loginAfterLookup(rec, user) ==
    IF user = None
    THEN LoginThrow(rec, Error("Invalid credentials"))
    ELSE IF ~user[1].is_active
    THEN LoginThrow([rec EXCEPT !.user = user], Error("Account is inactive"))
    ELSE [rec EXCEPT !.user = user, !.pc = "compare"]

(* a login that asks findByUsername whatever findByEmail returned *)
loginAfterEmailThenUsername(rec, user) ==
    [rec EXCEPT !.pc = "findByUsername"]

(* AuthService.login after findByEmail resolved *)
loginAfterEmail(rec, user) ==
    IF user = None
    THEN [rec EXCEPT !.pc = "findByUsername"]
    ELSE loginAfterLookup(rec, user)

(* a login that records the login before it looks at the comparison *)
loginAfterCompareUnchecked(rec) == [rec EXCEPT !.pc = "updateLastLogin"]

(* AuthService.login after comparePassword resolved *)
loginAfterCompare(rec) ==
    IF ~comparePassword(rec.in.password, rec.user[1].password_hash)
    THEN LoginThrow(rec, Error("Invalid credentials"))
    ELSE [rec EXCEPT !.pc = "updateLastLogin"]

(* AuthService.login after updateLastLogin resolved, and the 200 response *)
loginFinish(rec) ==
    Send([rec EXCEPT !.user = Some(sanitizeUserCall(rec.user[1]).user)],
         Response(200,
           [ status  |-> "success",
             message |-> "Login successful",
             data    |-> [ user         |-> sanitizeUser(rec.user[1]),
                           accessToken  |-> generateAccessToken(rec.user[1]),
                           refreshToken |-> generateRefreshToken(rec.user[1]) ] ]))

LoginRequest(c, body) ==
    /\ Accepts(c)
    /\ call' = Update(c, loginValidate(body))
    /\ UNCHANGED <<users, now, cfg, held, adminOps>>

LoginFindByEmail(c) ==
    /\ call[c].op = "login" /\ call[c].pc = "findByEmail"
    /\ \/ \E user \in FirstRow(findByEmail(call[c].in.login)) :
             call' = Update(c, loginAfterEmail(Called(call[c], "findByEmail"), user))
       \/ call' = Update(c, LoginThrow(
                     [Called(call[c], "findByEmail") EXCEPT !.fault = TRUE], DirectoryFault))
    /\ UNCHANGED <<users, now, cfg, held, adminOps>>

LoginFindByUsername(c) ==
    /\ call[c].op = "login" /\ call[c].pc = "findByUsername"
    /\ \/ \E user \in FirstRow(findByUsername(call[c].in.login)) :
             call' = Update(c, loginAfterLookup(Called(call[c], "findByUsername"), user))
       \/ call' = Update(c, LoginThrow(
                     [Called(call[c], "findByUsername") EXCEPT !.fault = TRUE], DirectoryFault))
    /\ UNCHANGED <<users, now, cfg, held, adminOps>>

LoginCompare(c) ==
    /\ call[c].op = "login" /\ call[c].pc = "compare"
    /\ call' = Update(c, loginAfterCompare(Called(call[c], "comparePassword")))
    /\ UNCHANGED <<users, now, cfg, held, adminOps>>

(* a login for which a failed updateLastLogin is no obstacle *)
LoginUpdateLastLoginBestEffort(c) ==
    /\ call[c].op = "login" /\ call[c].pc = "updateLastLogin"
    /\ \/ /\ users' = updateLastLogin(call[c].user[1].id)
          /\ call' = Update(c, loginFinish(Called(call[c], "updateLastLogin")))
       \/ /\ call' = Update(c, loginFinish(
                        [Called(call[c], "updateLastLogin") EXCEPT !.fault = TRUE]))
          /\ UNCHANGED users
    /\ held' = Stored(call'[c])
    /\ UNCHANGED <<now, cfg, adminOps>>

LoginUpdateLastLogin(c) ==
    /\ call[c].op = "login" /\ call[c].pc = "updateLastLogin"
    /\ \/ /\ users' = updateLastLogin(call[c].user[1].id)
          /\ call' = Update(c, loginFinish(Called(call[c], "updateLastLogin")))
       \/ /\ call' = Update(c, LoginThrow(
                        [Called(call[c], "updateLastLogin") EXCEPT !.fault = TRUE], DirectoryFault))
          /\ UNCHANGED users
    /\ held' = Stored(call'[c])
    /\ UNCHANGED <<now, cfg, adminOps>>

---------------------------------------------------------------------------
(* AuthController.refresh / AuthService.refreshToken *)

(* a catch block that reports every other error as a failed refresh *)
refreshCatchFailed(error) ==
    IF error.name = "TokenExpiredError"
    THEN Response(401, ErrorBody("Refresh token expired", "TOKEN_EXPIRED"))
    ELSE IF error.name = "JsonWebTokenError" \/ error.message = "Invalid token type"
    THEN Response(401, ErrorBody("Invalid refresh token", "INVALID_TOKEN"))
    ELSE Response(401, ErrorBody(error.message, "REFRESH_FAILED"))

(* the catch block of AuthController.refresh *)
refreshCatch(error) ==
    IF error.name = "TokenExpiredError"
    THEN Response(401, ErrorBody("Refresh token expired", "TOKEN_EXPIRED"))
    ELSE IF error.name = "JsonWebTokenError" \/ error.message = "Invalid token type"
    THEN Response(401, ErrorBody("Invalid refresh token", "INVALID_TOKEN"))
    ELSE IF error.message = "User not found" \/ error.message = "Account is inactive"
    THEN Response(401, ErrorBody(error.message, "REFRESH_FAILED"))
    ELSE Response(500, ErrorBody("Token refresh failed", "REFRESH_ERROR"))

RefreshThrow(rec, error) ==
    Send([rec EXCEPT !.err = Some(error)], refreshCatch(error))

(* the kind check dropped: every decoded payload passes *)
WrongTypeNever(decoded, kind) == FALSE

(* decoded.type !== kind *)
WrongType(decoded, kind) == Prop(decoded, "type") # Some(kind)

(* AuthController.refresh and AuthService.refreshToken up to the await of findById *)
refreshVerify(body) ==
    LET rec == NewCall("refresh", "findById", body)
    IN  IF body.refreshToken = None
        THEN Send(rec, Response(400,
                 ErrorBody("Refresh token is required", "MISSING_REFRESH_TOKEN")))
        ELSE LET verified == verifyRefreshToken(body.refreshToken[1])
             IN  IF ~verified.ok
                 THEN RefreshThrow(rec, JwtError(verified.name))
                 ELSE IF WrongType(verified.decoded, "refresh")
                 THEN RefreshThrow([rec EXCEPT !.decoded = Some(verified.decoded)],
                                   Error("Invalid token type"))
                 ELSE [rec EXCEPT !.decoded = Some(verified.decoded)]

(* what AuthService.refreshToken returns *)
refreshResult(user) == [accessToken |-> generateAccessToken(user)]

(* a refresh that rotates: the response carries a new refresh token as well *)
refreshFinishRotating(rec, user) ==
    IF user = None
    THEN RefreshThrow(rec, Error("User not found"))
    ELSE IF ~user[1].is_active
    THEN RefreshThrow([rec EXCEPT !.user = user], Error("Account is inactive"))
    ELSE Send([rec EXCEPT !.user = user],
              Response(200,
                [ status  |-> "success",
                  message |-> "Token refreshed successfully",
                  data    |-> [ accessToken  |-> generateAccessToken(user[1]),
                                refreshToken |-> generateRefreshToken(user[1]) ] ]))

(* AuthService.refreshToken after findById resolved, and the 200 response *)
refreshFinish(rec, user) ==
    IF user = None
    THEN RefreshThrow(rec, Error("User not found"))
    ELSE IF ~user[1].is_active
    THEN RefreshThrow([rec EXCEPT !.user = user], Error("Account is inactive"))
    ELSE Send([rec EXCEPT !.user = user],
              Response(200,
                [ status  |-> "success",
                  message |-> "Token refreshed successfully",
                  data    |-> [ accessToken |-> refreshResult(user[1]).accessToken ] ]))

RefreshRequest(c, body) ==
    /\ Accepts(c)
    /\ call' = Update(c, refreshVerify(body))
    /\ UNCHANGED <<users, now, cfg, held, adminOps>>

RefreshFindById(c) ==
    /\ call[c].op = "refresh" /\ call[c].pc = "findById"
    /\ \/ \E user \in FirstRow(findById(call[c].decoded[1].userId)) :
             call' = Update(c, refreshFinish(Called(call[c], "findById"), user))
       \/ call' = Update(c, RefreshThrow(
                     [Called(call[c], "findById") EXCEPT !.fault = TRUE], DirectoryFault))
    /\ held' = Stored(call'[c])
    /\ UNCHANGED <<users, now, cfg, adminOps>>

---------------------------------------------------------------------------
(* The authentication gate (authenticate), and the routes behind it *)

BearerPrefix == <<"B", "e", "a", "r", "e", "r", " ">>

(* the prefix compared without its trailing space *)
StartsWithBearerWord(lead) ==
    /\ Len(lead) >= 6
    /\ SubSeq(lead, 1, 6) = SubSeq(BearerPrefix, 1, 6)

(* authHeader.startsWith('Bearer ') *)
StartsWithBearer(lead) ==
    /\ Len(lead) >= Len(BearerPrefix)
    /\ SubSeq(lead, 1, Len(BearerPrefix)) = BearerPrefix

(* authHeader.substring(7): the credential, when exactly the prefix comes before *)
(* it; otherwise text that is no token                                          *)
substring7(authorization) ==
    IF Len(authorization.lead) = 7
    THEN authorization.token
    ELSE [wellFormed |-> FALSE, payload |-> <<>>, sig |-> ""]

(* a catch block that answers every verification error alike *)
authenticateCatchAlike(error) ==
    Response(401, ErrorBody("Invalid token", "INVALID_TOKEN"))

(* the catch block of authenticate *)
authenticateCatch(error) ==
    IF error.name = "TokenExpiredError"
    THEN Response(401, ErrorBody("Token expired", "TOKEN_EXPIRED"))
    ELSE IF error.name = "JsonWebTokenError"
    THEN Response(401, ErrorBody("Invalid token", "INVALID_TOKEN"))
    ELSE Response(401, ErrorBody("Authentication failed", "AUTH_FAILED"))

(* req.user = decoded: the whole payload attached *)
reqUserOfDecoded(decoded) == [f \in DOMAIN decoded |-> Some(decoded[f])]

(* req.user: the six properties read off the decoded payload *)
reqUserOf(decoded) ==
    [ userId         |-> Prop(decoded, "userId"),
      username       |-> Prop(decoded, "username"),
      email          |-> Prop(decoded, "email"),
      roleId         |-> Prop(decoded, "roleId"),
      roleName       |-> Prop(decoded, "roleName"),
      municipalityId |-> Prop(decoded, "municipalityId") ]

(* a request to a route behind the gates arrives: no gate has run yet *)
Arrive(op, pc, in) ==
    [NewCall(op, pc, in) EXCEPT !.stages = <<"Unauthenticated">>]

(* the request has got as far as this stage of the gates *)
Stage(rec, stage) == [rec EXCEPT !.stages = Append(@, stage)]

(* return res.status(..).json(..) in a gate: the request is rejected *)
Deny(rec, response) == Send(Stage(rec, "Rejected"), response)

(* authenticate(req, res, next); a header is the text up to the credential, then *)
(* the credential                                                                *)
authenticate(rec, headers) ==
    IF headers.authorization = None
       \/ ~StartsWithBearer(headers.authorization[1].lead)
    THEN Deny(rec, Response(401, ErrorBody("Authentication required", "NO_TOKEN")))
    ELSE LET extracted == Called(Stage(rec, "TokenExtracted"), "verifyAccessToken")
             verified == verifyAccessToken(substring7(headers.authorization[1]))
         IN  IF ~verified.ok
             THEN Deny([extracted EXCEPT !.err = Some(JwtError(verified.name))],
                       authenticateCatch(JwtError(verified.name)))
             ELSE IF WrongType(verified.decoded, "access")
             THEN Deny([extracted EXCEPT !.decoded = Some(verified.decoded)],
                       Response(401, ErrorBody("Invalid token type", "INVALID_TOKEN_TYPE")))
             ELSE [Stage(extracted, "TokenVerified") EXCEPT
                      !.decoded = Some(verified.decoded),
                      !.reqUser = Some(reqUserOf(verified.decoded)),
                      !.next = TRUE]

(* the handler of a route runs: the gates before it have all called next() *)
Handle(rec) == Stage(rec, "Handler")

(* GET /auth/me: authenticate, then AuthController.me up to the await of findById *)
MeRequest(c, headers) ==
    /\ Accepts(c)
    /\ LET gated == authenticate(Arrive("me", "findById", headers), headers)
       IN  call' = Update(c, IF gated.next THEN Handle(gated) ELSE gated)
    /\ UNCHANGED <<users, now, cfg, held, adminOps>>

(* the catch block of AuthController.me *)
meCatch(error) ==
    Response(500, ErrorBody("Failed to retrieve user information", "GET_USER_ERROR"))

(* AuthController.me after findById resolved *)
meFinish(rec, user) ==
    IF user = None
    THEN Send(rec, Response(404, ErrorBody("User not found", "USER_NOT_FOUND")))
    ELSE Send([rec EXCEPT !.user = Some(sanitizeUserCall(user[1]).user)],
              Response(200, [ status |-> "success",
                              data   |-> [ user |-> sanitizeUser(user[1]) ] ]))

MeFindById(c) ==
    /\ call[c].op = "me" /\ call[c].pc = "findById"
    /\ \/ \E user \in FirstRow(findById(call[c].reqUser[1].userId[1])) :
             call' = Update(c, meFinish(Called(call[c], "findById"), user))
       \/ call' = Update(c, Send([Called(call[c], "findById") EXCEPT !.fault = TRUE,
                                                        !.err = Some(DirectoryFault)],
                          meCatch(DirectoryFault)))
    /\ UNCHANGED <<users, now, cfg, held, adminOps>>

(* AuthController.logout: nothing is invalidated *)
logout(rec) ==
    Send(rec, Response(200, [status |-> "success", message |-> "Logout successful"]))

(* POST /auth/logout: authenticate, then AuthController.logout *)
LogoutRequest(c, headers) ==
    /\ Accepts(c)
    /\ LET gated == authenticate(Arrive("logout", "handler", headers), headers)
       IN  call' = Update(c, IF gated.next THEN logout(Handle(gated)) ELSE gated)
    /\ UNCHANGED <<users, now, cfg, held, adminOps>>

---------------------------------------------------------------------------
(* The authorization gate (authorize), and a route behind both gates *)

(* Array.isArray(allowedRoles) ? allowedRoles : [allowedRoles]; the argument is *)
(* one role name or an array of role names                                      *)
rolesOf(allowedRoles) ==
    IF allowedRoles.array THEN allowedRoles.value ELSE << allowedRoles.value >>

(* a membership test that looks at the first role only *)
includesFirst(roles, roleName) ==
    /\ roleName # None
    /\ roleName[1] # None
    /\ roles # <<>>
    /\ roles[1] = roleName[1][1]

(* roles.includes(roleName): roleName is undefined, null or a string *)
includes(roles, roleName) ==
    /\ roleName # None
    /\ roleName[1] # None
    /\ \E i \in DOMAIN roles : roles[i] = roleName[1][1]

(* a 403 response that echoes the whole identity *)
forbiddenWithIdentity(roles, reqUser) ==
    Response(403,
        ErrorBody("Access denied. Insufficient permissions.", "FORBIDDEN")
          @@ [requiredRoles |-> roles, userRole |-> reqUser.roleName, user |-> reqUser])

(* the 403 response of authorize *)
forbidden(roles, reqUser) ==
    Response(403,
        ErrorBody("Access denied. Insufficient permissions.", "FORBIDDEN")
          @@ [requiredRoles |-> roles, userRole |-> reqUser.roleName])

(* authorize with the return before res.status(403) missing: the denial is sent *)
(* and next() is called all the same                                            *)
authorizeWithoutReturn(rec, allowedRoles) ==
    LET roles == rolesOf(allowedRoles)
    IN  IF rec.reqUser = None
        THEN Deny(rec, Response(401,
                 ErrorBody("Authentication required", "NOT_AUTHENTICATED")))
        ELSE IF ~includes(roles, rec.reqUser[1].roleName)
        THEN [Deny(rec, forbidden(roles, rec.reqUser[1])) EXCEPT !.next = TRUE]
        ELSE [Stage(rec, "RoleChecked") EXCEPT !.next = TRUE]

(* authorize(allowedRoles)(req, res, next) *)
authorize(rec, allowedRoles) ==
    LET roles == rolesOf(allowedRoles)
    IN  IF rec.reqUser = None
        THEN Deny(rec, Response(401,
                 ErrorBody("Authentication required", "NOT_AUTHENTICATED")))
        ELSE IF ~includes(roles, rec.reqUser[1].roleName)
        THEN Deny(rec, forbidden(roles, rec.reqUser[1]))
        ELSE [Stage(rec, "RoleChecked") EXCEPT !.next = TRUE]

(* the handler of the protected route *)
resource(rec) == Send(rec, Response(200, [status |-> "success"]))

(* a route registered as router.get(path, authenticate, authorize(roles), handler), *)
(* or with authorize alone: the gates run in the order of registration, each one   *)
(* only when the one before it called next()                                       *)
ResourceRequest(c, request) ==
    /\ Accepts(c)
    /\ LET arrived == Arrive("resource", "handler", request)
           gated == IF request.route.authenticated
                    THEN authenticate(arrived, request)
                    ELSE [arrived EXCEPT !.next = TRUE]
           checked == IF gated.next
                      THEN authorize([gated EXCEPT !.next = FALSE],
                                     request.route.allowedRoles)
                      ELSE gated
       IN  call' = Update(c, IF checked.next THEN resource(Handle(checked)) ELSE checked)
    /\ UNCHANGED <<users, now, cfg, held, adminOps>>

---------------------------------------------------------------------------
(* The rest of the system: the clock, and the directory's other writers *)

(* the clock runs until a refresh token issued at time 0 has expired *)
Horizon == RefreshExpiresIn

Tick ==
    /\ now < Horizon
    /\ now' = now + 1
    /\ UNCHANGED <<users, cfg, call, held, adminOps>>

Deactivate(id) ==
    /\ adminOps < MaxAdminOps
    /\ id \in DOMAIN users /\ users[id].is_active
    /\ users' = [users EXCEPT ![id].is_active = FALSE]
    /\ adminOps' = adminOps + 1
    /\ UNCHANGED <<now, cfg, call, held>>

SoftDelete(id) ==
    /\ adminOps < MaxAdminOps
    /\ id \in DOMAIN users /\ Live(users[id])
    /\ users' = [users EXCEPT ![id].deleted_at = Some(now)]
    /\ adminOps' = adminOps + 1
    /\ UNCHANGED <<now, cfg, call, held>>

ChangeRole(id, roleId) ==
    /\ adminOps < MaxAdminOps
    /\ id \in DOMAIN users /\ users[id].role_id # roleId
    /\ users' = [users EXCEPT ![id].role_id = roleId]
    /\ adminOps' = adminOps + 1
    /\ UNCHANGED <<now, cfg, call, held>>

---------------------------------------------------------------------------
(* The inputs *)

Ann == <<"a", "n", "n">>
Bob == <<"b", "o", "b">>
Zed == <<"z", "e", "d">>
MailA == <<"a", "@", "x", ".", "y">>
MailB == <<"b", "@", "x", ".", "y">>
Pw1 == <<"p", "a", "s", "s", "w", "o", "r", "1">>
Pw2 == <<"p", "a", "s", "s", "w", "o", "r", "2">>

Body(username, email, password, roleId, municipalityId) ==
    [ username |-> username, email |-> email, password |-> password,
      roleId |-> roleId, municipalityId |-> municipalityId ]

(* request bodies of POST /auth/register *)
RegisterBodies ==
    { Body(Ann, MailA, Pw1, None, None),
      Body(Bob, <<" ">> \o MailA, Pw2, Some(1), Some(1)),
      Body(Ann \o <<" ">>, MailB, Pw1, Some(0), Some(0)),
      Body(Ann, MailA, <<>>, None, None),
      Body(Ann, <<"a", "@", "x">>, Pw1, None, None),
      Body(<<"a", "!", "n">>, MailA, Pw1, None, None),
      Body(Ann, MailA, <<"p", "w">>, None, None) }

(* two passwords longer than bcrypt reads, alike in all but the last character *)
Long1 == [i \in 1..(BcryptMaxBytes + 1) |-> IF i <= BcryptMaxBytes THEN "a" ELSE "1"]
Long2 == [i \in 1..(BcryptMaxBytes + 1) |-> IF i <= BcryptMaxBytes THEN "a" ELSE "2"]

(* registrations of two accounts, one of them with a long password, and one *)
(* with the username of the first, the email of the second and role id 0    *)
AccountBodies ==
    { Body(Ann, MailA, Long1, None, None),
      Body(Bob, MailB, Pw2, Some(1), Some(1)),
      Body(Ann, MailB, Long1, Some(0), Some(0)) }

(* logins to the two accounts, by username and by email *)
AccountLogins ==
    { [login |-> l, password |-> p] : l \in {Ann, MailB}, p \in {Long1, Long2, Pw2} }

(* request bodies of POST /auth/login *)
LoginBodies ==
    { [login |-> l, password |-> p] :
        l \in {MailA, Ann, <<" ">> \o Bob, Zed}, p \in {Pw1, Pw2} }
    \cup { [login |-> MailA, password |-> <<>>], [login |-> <<>>, password |-> Pw1] }

(* the tokens a client can present: those it was handed, altered ones, and text *)
(* that is no token.  by names how the client came by the credential, and had   *)
(* the access token it held when it asked for a refresh; the server reads       *)
(* neither                                                                       *)
Tampered(token) == [token EXCEPT !.sig = "forged"]

NotAToken == [wellFormed |-> FALSE, payload |-> <<>>, sig |-> ""]

Genuine(by) ==
    LET stored == IF by = "generateAccessToken" THEN held.accessToken ELSE held.refreshToken
    IN  { [token |-> stored[k], by |-> by] : k \in DOMAIN stored }

Forged(by) == { [token |-> Tampered(cr.token), by |-> "tampered"] : cr \in Genuine(by) }

Junk == { [token |-> NotAToken, by |-> "garbage"] }

(* a logout has just been answered with success *)
LoggedOut ==
    \E d \in Calls : /\ call[d].op = "logout" /\ call[d].pc = "done"
                     /\ call[d].resp[1].http = 200

(* a header with this text before the credential *)
Header(lead, credentials) ==
    { [authorization |-> Some([lead |-> lead, token |-> cr.token]), by |-> cr.by] :
        cr \in credentials }

NoHeader == { [authorization |-> None, by |-> "none"] }

Bearer(credentials) == Header(BearerPrefix, credentials)

(* request bodies of POST /auth/refresh *)
RefreshBodies ==
    { [refreshToken |-> Some(cr.token), by |-> cr.by, had |-> held.accessToken] :
        cr \in Genuine("generateRefreshToken") \cup Genuine("generateAccessToken")
               \cup Forged("generateRefreshToken") \cup Junk }
    \cup { [refreshToken |-> None, by |-> "none", had |-> held.accessToken] }

(* request headers of GET /auth/me *)
MeHeaders ==
    Bearer(Genuine("generateAccessToken") \cup Genuine("generateRefreshToken")
           \cup Forged("generateAccessToken") \cup Junk)
    \cup Header(<<"B", "a", "s", "i", "c", " ">>, Genuine("generateAccessToken"))
    \cup Header(<<"b", "e", "a", "r", "e", "r", " ">>, Genuine("generateAccessToken"))
    \cup Header(<<"B", "e", "a", "r", "e", "r">>, Genuine("generateAccessToken"))
    \cup Header(BearerPrefix \o <<" ">>, Genuine("generateAccessToken"))
    \cup NoHeader

(* request headers of POST /auth/logout *)
LogoutHeaders ==
    Bearer(Genuine("generateAccessToken") \cup Genuine("generateRefreshToken"))
    \cup NoHeader

(* the routes behind authorize: the role names the route was registered with, and *)
(* whether authenticate was registered before authorize                           *)
Route(authenticated, array, value) ==
    [ authenticated |-> authenticated,
      allowedRoles  |-> [array |-> array, value |-> value] ]

Routes ==
    { Route(TRUE, FALSE, "admin"),
      Route(TRUE, TRUE, <<"editor", "viewer">>),
      Route(FALSE, FALSE, "admin") }

(* requests to the routes behind authorize; after tells whether the request *)
(* follows a successful logout, which the server does not read either       *)
ResourceRequests ==
    { headers @@ [route |-> route, after |-> LoggedOut] :
        headers \in Bearer(Genuine("generateAccessToken")
                           \cup Genuine("generateRefreshToken") \cup Junk)
                    \cup NoHeader,
        route \in Routes }

---------------------------------------------------------------------------
(* Initial states *)

(* authConfig.jwt.accessSecret and refreshSecret: two secrets *)
SeparateSecrets == [accessSecret |-> "secretA", refreshSecret |-> "secretB"]

(* authConfig.jwt.accessSecret and refreshSecret: both set to one value *)
SharedSecret == [accessSecret |-> "secretA", refreshSecret |-> "secretA"]

Configs == {SeparateSecrets, SharedSecret}

(* a fresh deployment: no user yet, and registrations that race *)
Init ==
    /\ users = <<>>
    /\ now = 0
    /\ cfg = SeparateSecrets
    /\ call = [c \in 1..MaxRacing |-> Idle]
    /\ held = [accessToken |-> None, refreshToken |-> None]
    /\ adminOps = 0

(* what userRepository.create was handed for two registrations *)
SeedAnn ==
    [ username |-> Ann, email |-> MailA, passwordHash |-> hashPassword(Pw1, "saltA"),
      roleId |-> DefaultRoleId, municipalityId |-> None ]

SeedBob ==
    [ username |-> Bob, email |-> MailB, passwordHash |-> hashPassword(Pw2, "saltB"),
      roleId |-> 1, municipalityId |-> Some(1) ]

(* two registered users *)
SeedUsers == << Row(1, SeedAnn), Row(2, SeedBob) >>

(* a deployment in which two users have registered *)
InitSeeded ==
    /\ users = SeedUsers
    /\ now = 0
    /\ cfg = SeparateSecrets
    /\ call = [c \in 1..MaxInFlight |-> Idle]
    /\ held = [accessToken |-> None, refreshToken |-> None]
    /\ adminOps = 0

Admin ==
    \E id \in DOMAIN users :
        \/ Deactivate(id)
        \/ SoftDelete(id)
        \/ \E roleId \in DOMAIN Roles : ChangeRole(id, roleId)

RegisterStep(c) ==
    \/ \E body \in RegisterBodies : RegisterRequest(c, body)
    \/ RegisterEmailExists(c)
    \/ RegisterUsernameExists(c)
    \/ RegisterHash(c)
    \/ RegisterCreate(c)
    \/ RegisterFindById(c)

LoginStep(c) ==
    \/ \E body \in LoginBodies : LoginRequest(c, body)
    \/ LoginFindByEmail(c)
    \/ LoginFindByUsername(c)
    \/ LoginCompare(c)
    \/ LoginUpdateLastLogin(c)

RefreshStep(c) ==
    \/ \E body \in RefreshBodies : RefreshRequest(c, body)
    \/ RefreshFindById(c)

GateStep(c) ==
    \/ \E headers \in MeHeaders : MeRequest(c, headers)
    \/ MeFindById(c)
    \/ \E headers \in LogoutHeaders : LogoutRequest(c, headers)

ResourceStep(c) ==
    \/ \E request \in ResourceRequests : ResourceRequest(c, request)
    \/ \E headers \in LogoutHeaders : LogoutRequest(c, headers)

(* the whole service *)
Next ==
    \/ \E c \in Calls : RegisterStep(c) \/ LoginStep(c) \/ RefreshStep(c)
                          \/ GateStep(c) \/ ResourceStep(c)
    \/ Admin
    \/ Tick

Spec == Init /\ [][Next]_vars

(* registration alone, from the fresh deployment *)
NextRegister ==
    \/ \E c \in Calls : RegisterStep(c)
    \/ \E id \in DOMAIN users : SoftDelete(id)

SpecRegister == Init /\ [][NextRegister]_vars

(* logins against the two registered users *)
NextLogin ==
    \/ \E c \in Calls : LoginStep(c)
    \/ Admin

SpecLogin == InitSeeded /\ [][NextLogin]_vars

(* a directory in which the username of the second row is the email of the first: *)
(* the users table accepts any text as username, isValidUsername is applied by    *)
(* AuthController.register alone                                                  *)
InitResolve ==
    /\ users = << Row(1, SeedAnn), Row(2, [SeedBob EXCEPT !.username = MailA]) >>
    /\ now = 0
    /\ cfg = SeparateSecrets
    /\ call = [c \in 1..MaxInFlight |-> Idle]
    /\ held = [accessToken |-> None, refreshToken |-> None]
    /\ adminOps = 0

(* logins with an identifier that is an email of one row and a username of another *)
SpecResolve == InitResolve /\ [][NextLogin]_vars

(* one registered user, logged in at time 0 and holding the tokens of that *)
(* login, under either configuration of the secrets                        *)
InitSession ==
    /\ now = 0
    /\ cfg \in Configs
    /\ \E seed \in {SeedAnn, SeedBob} :
          /\ users = << [Row(1, seed) EXCEPT !.last_login = Some(0)] >>
          /\ held = [ accessToken  |-> Some(generateAccessToken(JoinRole(Row(1, seed)))),
                      refreshToken |-> Some(generateRefreshToken(JoinRole(Row(1, seed)))) ]
    /\ call = [c \in 1..MaxInFlight |-> Idle]
    /\ adminOps = 0

(* a fresh deployment that handles one request after the other *)
InitAccounts ==
    /\ users = <<>>
    /\ now = 0
    /\ cfg = SeparateSecrets
    /\ call = << Idle >>
    /\ held = [accessToken |-> None, refreshToken |-> None]
    /\ adminOps = 0

(* accounts: registrations, then logins, refreshes and profile reads with the *)
(* tokens held, while accounts are soft-deleted                               *)
NextAccounts ==
    \/ \E id \in DOMAIN users : SoftDelete(id)
    \/ \E c \in Calls :
        \/ \E body \in AccountBodies : RegisterRequest(c, body)
        \/ RegisterEmailExists(c)
        \/ RegisterUsernameExists(c)
        \/ RegisterHash(c)
        \/ RegisterCreate(c)
        \/ RegisterFindById(c)
        \/ \E body \in AccountLogins : LoginRequest(c, body)
        \/ LoginFindByEmail(c)
        \/ LoginFindByUsername(c)
        \/ LoginCompare(c)
        \/ LoginUpdateLastLogin(c)
        \/ \E headers \in Bearer(Genuine("generateAccessToken")) : MeRequest(c, headers)
        \/ MeFindById(c)
        \/ \E body \in RefreshBodies : RefreshRequest(c, body)
        \/ RefreshFindById(c)

SpecAccounts == InitAccounts /\ [][NextAccounts]_vars

(* sessions: refreshes and requests through the gate as time passes *)
NextSession ==
    \/ \E c \in Calls : RefreshStep(c) \/ GateStep(c)
    \/ Admin
    \/ Tick

SpecSession == InitSession /\ [][NextSession]_vars

(* the gate pair: requests to the routes behind authorize, and logouts, as time *)
(* passes and the directory changes                                             *)
NextGates ==
    \/ \E c \in Calls : ResourceStep(c)
    \/ Admin
    \/ Tick

SpecGates == InitSession /\ [][NextGates]_vars

---------------------------------------------------------------------------
(* Properties *)

Gated(c) == call[c].op \in {"me", "logout"}

Answered(c) == call[c].pc = "done" /\ call[c].resp # None

(* the response of slot c is the error response with this status and code *)
Rejected(c, http, code) ==
    /\ Answered(c)
    /\ call[c].resp[1].http = http
    /\ call[c].resp[1].body.status = "error"
    /\ call[c].resp[1].body.code = code

(* the response of slot c hands out no token *)
NoTokenReturned(c) ==
    Answered(c) => \/ "data" \notin DOMAIN call[c].resp[1].body
                   \/ DOMAIN call[c].resp[1].body.data
                        \cap {"accessToken", "refreshToken"} = {}

(* the credential of a request through the gate that carries a Bearer header *)
BearerToken(c) == call[c].in.authorization[1].token

CarriesBearer(c) ==
    /\ Gated(c)
    /\ call[c].in.authorization # None
    /\ call[c].in.authorization[1].lead = BearerPrefix

(* the credential was not yet expired when the request arrived *)
Fresh(c, token) == call[c].at < token.payload.exp

(* C1: a token made by generateRefreshToken never passes the authentication gate  *)
(* (no identity is attached, the next handler is not called), and a token made by *)
(* generateAccessToken never obtains an access token from refresh, at any time of *)
(* the token's life and under either configuration of the secrets.                *)
C1_KindsNeverCross ==
    \A c \in Calls :
        /\ (Gated(c) /\ call[c].in.by = "generateRefreshToken")
              => /\ call[c].reqUser = None
                 /\ ~call[c].next
                 /\ Answered(c) /\ call[c].resp[1].http = 401
        /\ (call[c].op = "refresh" /\ call[c].in.by = "generateAccessToken")
              => /\ Answered(c)
                 /\ call[c].resp[1].http = 401
                 /\ NoTokenReturned(c)
                 /\ call[c].user = None

(* a live refresh token was presented as a Bearer credential while both kinds are *)
(* signed with one secret                                                         *)
C1_Witness ==
    \E c \in Calls :
        /\ cfg = SharedSecret
        /\ CarriesBearer(c) /\ call[c].op = "me"
        /\ call[c].in.by = "generateRefreshToken"
        /\ Fresh(c, BearerToken(c))
        /\ Answered(c)

(* C2: with the access secret and the refresh secret set to one value, the gate    *)
(* answers a verified token whose type is not 'access' with INVALID_TOKEN_TYPE,    *)
(* and refreshToken() throws 'Invalid token type' for a verified token whose type  *)
(* is not 'refresh' (which the controller answers with 401 INVALID_TOKEN).         *)
C2_KindCheckWithoutSecretSeparation ==
    cfg.accessSecret = cfg.refreshSecret =>
        \A c \in Calls :
            /\ ( /\ CarriesBearer(c)
                 /\ call[c].in.by \in {"generateAccessToken", "generateRefreshToken"}
                 /\ Fresh(c, BearerToken(c))
                 /\ BearerToken(c).payload.type # "access" )
                  => /\ Rejected(c, 401, "INVALID_TOKEN_TYPE")
                     /\ call[c].reqUser = None /\ ~call[c].next
            /\ ( /\ call[c].op = "refresh"
                 /\ call[c].in.by \in {"generateAccessToken", "generateRefreshToken"}
                 /\ Fresh(c, call[c].in.refreshToken[1])
                 /\ call[c].in.refreshToken[1].payload.type # "refresh" )
                  => /\ call[c].err = Some(Error("Invalid token type"))
                     /\ Rejected(c, 401, "INVALID_TOKEN")
                     /\ NoTokenReturned(c)

(* a live access token was sent to refresh while both kinds are signed with one *)
(* secret                                                                        *)
C2_Witness ==
    \E c \in Calls :
        /\ cfg = SharedSecret
        /\ call[c].op = "refresh"
        /\ call[c].in.by = "generateAccessToken"
        /\ Fresh(c, call[c].in.refreshToken[1])
        /\ call[c].err = Some(Error("Invalid token type"))

(* slot c takes a step of a login in which the directory or the hasher answers *)
LoginActs(c) ==
    /\ call[c].op = "login" /\ call[c].pc # "done"
    /\ call'[c].op = "login" /\ call'[c] # call[c]
    /\ ~call'[c].fault

(* the live rows the lookup of slot c matches *)
Matched(c) ==
    { k \in DOMAIN users :
        /\ users[k].deleted_at = None
        /\ \/ call[c].pc = "findByEmail" /\ users[k].email = call[c].in.login
           \/ call[c].pc = "findByUsername" /\ users[k].username = call[c].in.login }

(* the password each seeded user registered with *)
RegisteredPassword(username) == IF username = Ann THEN Pw1 ELSE Pw2

InvalidCredentials ==
    Response(401, ErrorBody("Invalid credentials", "AUTHENTICATION_FAILED"))

(* C3: a login whose identifier matches no account and a login with the username *)
(* of an account and a wrong password are answered alike: both throw 'Invalid    *)
(* credentials' and both receive the same status, message and code.              *)
C3_UnknownUserAndWrongPasswordAlike ==
    [][ \A c \in Calls :
          LoginActs(c) =>
             /\ ( call[c].pc = "findByUsername" /\ Matched(c) = {} )
                   => /\ call'[c].err = Some(Error("Invalid credentials"))
                      /\ call'[c].resp = Some(InvalidCredentials)
             /\ ( /\ call[c].pc = "compare"
                  /\ call[c].in.password # RegisteredPassword(call[c].user[1].username) )
                   => /\ call'[c].err = Some(Error("Invalid credentials"))
                      /\ call'[c].resp = Some(InvalidCredentials) ]_vars

(* a login with the username of an active account and another password than the *)
(* registered one has been answered                                             *)
C3_Witness ==
    \E c \in Calls :
        /\ call[c].op = "login" /\ Answered(c)
        /\ call[c].in.login = Ann /\ call[c].in.password = Pw2
        /\ call[c].log = <<"findByEmail", "findByUsername", "comparePassword">>
        /\ call[c].resp[1].http = 401

(* C4: a login that resolves to a deactivated account fails with 'Account is     *)
(* inactive' whatever the password, the correct one included; the flag is looked *)
(* at before the password: no password is compared, last_login is not updated    *)
(* and no token is issued.                                                       *)
C4_InactiveBeforePassword ==
    [][ \A c \in Calls :
          ( /\ LoginActs(c)
            /\ \E k \in Matched(c) : ~users[k].is_active )
            => /\ call'[c].err = Some(Error("Account is inactive"))
               /\ call'[c].resp = Some(Response(401,
                     ErrorBody("Account is inactive", "AUTHENTICATION_FAILED")))
               /\ call'[c].pc = "done"
               /\ \A i \in DOMAIN call'[c].log :
                     call'[c].log[i] \notin {"comparePassword", "updateLastLogin"}
               /\ users' = users
               /\ held' = held ]_vars

(* a login with the registered password of a deactivated account was refused *)
C4_Witness ==
    \E c \in Calls :
        /\ call[c].op = "login" /\ Answered(c)
        /\ call[c].err = Some(Error("Account is inactive"))
        /\ call[c].in.password = RegisteredPassword(call[c].user[1].username)
        /\ "comparePassword" \notin { call[c].log[i] : i \in DOMAIN call[c].log }

(* slot c takes the step in which findById of a refresh resolves and the *)
(* directory has answered                                                *)
RefreshResolves(c) ==
    /\ call[c].op = "refresh" /\ call[c].pc = "findById"
    /\ call'[c].op = "refresh" /\ call'[c].pc = "done"
    /\ ~call'[c].fault

(* the rows of the directory with the id the refresh token of slot c names *)
Named(c) == { k \in DOMAIN users : users[k].id = call[c].decoded[1].userId }

RefreshRejectedWith(c, message) ==
    /\ call'[c].err = Some(Error(message))
    /\ call'[c].resp = Some(Response(401, ErrorBody(message, "REFRESH_FAILED")))
    /\ held' = held

(* C5: a refresh with a valid refresh token looks the account up again: when the  *)
(* account is soft-deleted at that moment the refresh fails with 'User not found', *)
(* when it is deactivated it fails with 'Account is inactive', and in both cases  *)
(* no access token is issued (the directory having answered).                     *)
C5_RefreshRevalidatesAccount ==
    [][ \A c \in Calls :
          RefreshResolves(c) =>
             /\ (\A k \in Named(c) : users[k].deleted_at # None)
                   => RefreshRejectedWith(c, "User not found")
             /\ (\E k \in Named(c) : users[k].deleted_at = None /\ ~users[k].is_active)
                   => RefreshRejectedWith(c, "Account is inactive") ]_vars

(* a refresh token issued to a live account was refused after the account was *)
(* soft-deleted                                                               *)
C5_Witness ==
    \E c \in Calls :
        /\ call[c].op = "refresh" /\ Answered(c)
        /\ call[c].in.by = "generateRefreshToken"
        /\ call[c].err = Some(Error("User not found"))
        /\ \E k \in DOMAIN users :
              /\ users[k].id = call[c].decoded[1].userId
              /\ users[k].deleted_at # None
              /\ users[k].deleted_at[1] >= call[c].decoded[1].iat

(* C6: the access token a successful refresh returns carries the claims the    *)
(* directory holds for the account at the time of the refresh (username,       *)
(* email, role id, role name, municipality), not those of the time of login.   *)
C6_RefreshedClaimsAreCurrent ==
    [][ \A c \in Calls :
          ( RefreshResolves(c) /\ call'[c].resp[1].http = 200 ) =>
             \E k \in Named(c) :
                LET p == call'[c].resp[1].body.data.accessToken.payload
                IN  /\ p.userId = users[k].id
                    /\ p.username = users[k].username
                    /\ p.email = users[k].email
                    /\ p.roleId = users[k].role_id
                    /\ p.roleName = Some(Roles[users[k].role_id])
                    /\ p.municipalityId = users[k].municipality_id
                    /\ p.iat = now ]_vars

(* a refresh succeeded after the role of the account was changed: the claims of *)
(* the new token differ from those of the token held before                     *)
C6_Witness ==
    \E c \in Calls :
        /\ call[c].op = "refresh" /\ Answered(c)
        /\ call[c].resp[1].http = 200
        /\ call[c].in.had # None
        /\ call[c].resp[1].body.data.accessToken.payload.roleId
             # call[c].in.had[1].payload.roleId

(* slot c takes a step of a refresh *)
RefreshActs(c) == call'[c].op = "refresh" /\ call'[c] # call[c]

(* C7: a refresh returns an access token only; the refresh token is not rotated *)
(* and stays usable: a refresh token that verifies is accepted whether or not   *)
(* it was used before, and a refresh writes nothing to the directory.           *)
C7_RefreshDoesNotRotate ==
    [][ \A c \in Calls :
          RefreshActs(c) =>
             /\ users' = users
             /\ held'.refreshToken = held.refreshToken
             /\ ( call'[c].resp # None /\ call'[c].resp[1].http = 200 )
                   => DOMAIN call'[c].resp[1].body.data = {"accessToken"}
             /\ ( /\ call'[c].in.by = "generateRefreshToken"
                  /\ call[c].pc # "findById"
                  /\ now < call'[c].in.refreshToken[1].payload.exp )
                   => call'[c].pc = "findById"
             /\ ( /\ RefreshResolves(c)
                  /\ \E k \in Named(c) : users[k].deleted_at = None /\ users[k].is_active )
                   => call'[c].resp[1].http = 200 ]_vars

(* the refresh token of the login was accepted again after it had already *)
(* produced an access token                                               *)
C7_Witness ==
    \E c \in Calls :
        /\ call[c].op = "refresh" /\ Answered(c)
        /\ call[c].resp[1].http = 200
        /\ call[c].in.refreshToken[1].payload.iat = 0
        /\ call[c].in.had # None
        /\ call[c].in.had[1].payload.iat > 0
        /\ held.refreshToken = call[c].in.refreshToken

(* slot c takes a step of a registration *)
RegisterActs(c) == call'[c].op = "register" /\ call'[c] # call[c]

(* a live row holds the email, or the username, the registration of slot c asks for *)
EmailTaken(c) ==
    \E k \in DOMAIN users :
        users[k].deleted_at = None /\ users[k].email = call'[c].in.email

UsernameTaken(c) ==
    \E k \in DOMAIN users :
        users[k].deleted_at = None /\ users[k].username = call'[c].in.username

SawDuplicate(rec) == rec.emailExists = Some(TRUE) \/ rec.usernameExists = Some(TRUE)

(* C8: a registration whose email, or whose username, is held by a live row at   *)
(* the time of the existence check learns so, and from then on writes nothing:   *)
(* no password is hashed, create is not called, the directory and the client's   *)
(* tokens are unchanged, and once both checks have answered it fails with        *)
(* DUPLICATE_USER ('Email already registered' taking precedence).                *)
C8_DuplicateFailsBeforeAnyWrite ==
    [][ \A c \in Calls :
          RegisterActs(c) =>
             /\ ( /\ call[c].pc = "exists" /\ call[c].emailExists = None
                  /\ call'[c].emailExists # None /\ EmailTaken(c) )
                   => call'[c].emailExists = Some(TRUE)
             /\ ( /\ call[c].pc = "exists" /\ call[c].usernameExists = None
                  /\ call'[c].usernameExists # None /\ UsernameTaken(c) )
                   => call'[c].usernameExists = Some(TRUE)
             /\ SawDuplicate(call'[c])
                   => /\ users' = users
                      /\ held' = held
                      /\ call'[c].pc \in {"exists", "done"}
                      /\ call'[c].passwordHash = None
                      /\ call'[c].created = None
                      /\ \A i \in DOMAIN call'[c].log :
                            call'[c].log[i] \notin {"hashPassword", "create"}
                      /\ ( call'[c].emailExists # None /\ call'[c].usernameExists # None )
                            => call'[c].resp = Some(Response(400, ErrorBody(
                                  IF call'[c].emailExists = Some(TRUE)
                                  THEN "Email already registered"
                                  ELSE "Username already taken",
                                  "DUPLICATE_USER"))) ]_vars

(* a registration with the email of a registered user and a username of its own *)
(* was refused                                                                   *)
C8_Witness ==
    \E c \in Calls :
        /\ call[c].op = "register" /\ Answered(c)
        /\ call[c].emailExists = Some(TRUE) /\ call[c].usernameExists = Some(FALSE)
        /\ call[c].resp[1].body.code = "DUPLICATE_USER"
        /\ \E k \in DOMAIN users :
              users[k].deleted_at = None /\ users[k].email = call[c].in.email

(* C9: among the rows that are not soft-deleted no two hold the same email and *)
(* no two hold the same username, in every reachable state, whatever the       *)
(* interleaving of the registrations.                                          *)
C9_UniqueAmongLiveRecords ==
    \A i, j \in DOMAIN users :
        ( i # j /\ users[i].deleted_at = None /\ users[j].deleted_at = None )
          => /\ users[i].email # users[j].email
             /\ users[i].username # users[j].username

(* the six claims of an identity, as the gate attaches them *)
IdentityContext(userId, username, email, roleId, roleName, municipalityId) ==
    [ userId |-> Some(userId), username |-> Some(username), email |-> Some(email),
      roleId |-> Some(roleId), roleName |-> Some(roleName),
      municipalityId |-> Some(municipalityId) ]

(* C10: an access token is issued with the claims of the identity it is issued for *)
(* (user id, username, email, role id, role name, municipality id, type 'access')  *)
(* and an expiry AccessExpiresIn after its issue; presented to the gate before     *)
(* that expiry it is verified and exactly those claims are attached; presented     *)
(* once the expiry has elapsed it is answered TOKEN_EXPIRED and nothing is         *)
(* attached.                                                                       *)
C10_AccessRoundTripAndExpiry ==
    \A c \in Calls :
        /\ ( /\ call[c].op = "refresh" /\ Answered(c) /\ call[c].resp[1].http = 200 )
              => LET p == call[c].resp[1].body.data.accessToken.payload
                     u == call[c].user[1]
                 IN  /\ p.userId = u.id /\ p.username = u.username /\ p.email = u.email
                     /\ p.roleId = u.role_id /\ p.roleName = u.role_name
                     /\ p.municipalityId = u.municipality_id
                     /\ p.type = "access"
                     /\ p.exp = p.iat + AccessExpiresIn
                     /\ p.iat <= now
        /\ ( CarriesBearer(c) /\ call[c].in.by = "generateAccessToken" )
              => LET p == BearerToken(c).payload
                 IN  IF call[c].at < p.iat + AccessExpiresIn
                     THEN /\ call[c].next
                          /\ call[c].reqUser =
                               Some(IdentityContext(p.userId, p.username, p.email,
                                                    p.roleId, p.roleName, p.municipalityId))
                     ELSE /\ Rejected(c, 401, "TOKEN_EXPIRED")
                          /\ call[c].reqUser = None /\ ~call[c].next

(* an access token obtained from a refresh was presented to the gate in the very *)
(* instant of its issue                                                          *)
C10_Witness ==
    \E c \in Calls :
        /\ CarriesBearer(c) /\ call[c].in.by = "generateAccessToken"
        /\ call[c].at = BearerToken(c).payload.iat
        /\ BearerToken(c).payload.iat > 0
        /\ call[c].next

(* slot c takes the step of a request to a route behind authenticate and *)
(* authorize, or of a logout                                             *)
GatePairActs(c) ==
    /\ call'[c] # call[c]
    /\ call'[c].op \in {"resource", "logout"}

(* the request of rec carries, as a Bearer credential, an access token the service *)
(* issued and that has not expired                                                 *)
LiveAccessToken(rec) ==
    /\ rec.in.authorization # None
    /\ rec.in.authorization[1].lead = BearerPrefix
    /\ rec.in.by = "generateAccessToken"
    /\ rec.at < rec.in.authorization[1].token.payload.exp

(* the role name embedded in the credential is one of the roles of the route *)
EmbeddedRoleAllowed(rec) ==
    LET role == rec.in.authorization[1].token.payload.roleName
        allowed == rec.in.route.allowedRoles
    IN  /\ role # None
        /\ IF allowed.array
           THEN \E i \in DOMAIN allowed.value : allowed.value[i] = role[1]
           ELSE allowed.value = role[1]

(* C11: nothing the server does invalidates an access token before its expiry: a *)
(* logout and a request through the gates change neither the directory nor the   *)
(* configuration nor the tokens, and an unexpired access token passes            *)
(* authenticate, and authorize with the role embedded at issuance, whatever      *)
(* happened since it was issued (logout, deactivation, soft delete, role change). *)
C11_AccessTokenSurvivesUntilExpiry ==
    [][ \A c \in Calls :
          GatePairActs(c) =>
             /\ users' = users /\ cfg' = cfg /\ held' = held
             /\ LiveAccessToken(call'[c]) /\ call'[c].op = "logout"
                   => call'[c].resp = Some(Response(200,
                         [status |-> "success", message |-> "Logout successful"]))
             /\ ( /\ LiveAccessToken(call'[c]) /\ call'[c].op = "resource"
                  /\ call'[c].in.route.authenticated )
                   => /\ call'[c].reqUser # None
                      /\ call'[c].reqUser[1].roleName
                           = Some(call'[c].in.authorization[1].token.payload.roleName)
                      /\ EmbeddedRoleAllowed(call'[c])
                           => call'[c].resp = Some(Response(200, [status |-> "success"]))
        ]_vars

(* after a logout and a change of the account's role, the access token of the *)
(* login still opened a route that admits the role it was issued with         *)
C11_Witness ==
    \E c \in Calls :
        /\ call[c].op = "resource" /\ Answered(c)
        /\ call[c].in.after
        /\ call[c].resp[1].http = 200
        /\ \E k \in DOMAIN users :
              /\ users[k].id = call[c].reqUser[1].userId[1]
              /\ Some(users[k].role_id) # call[c].reqUser[1].roleId

(* the names of the properties of an object, as a set *)
Keys(obj) == DOMAIN obj

(* the header of the request of slot c does not start with 'Bearer ': there is *)
(* none, or another text comes before the credential                           *)
NoBearerPrefix(c) ==
    \/ call[c].in.authorization = None
    \/ LET lead == call[c].in.authorization[1].lead
       IN  \E i \in 1..7 : Len(lead) < i \/ lead[i] # BearerPrefix[i]

(* C12: the authentication gate answers 401 NO_TOKEN when the authorization      *)
(* header is absent or does not start with 'Bearer '; no verification is         *)
(* attempted, no identity is attached and the next handler is not called.        *)
C12_NoTokenWithoutBearerPrefix ==
    \A c \in Calls :
        ( Gated(c) /\ NoBearerPrefix(c) )
          => /\ call[c].resp = Some(Response(401,
                   ErrorBody("Authentication required", "NO_TOKEN")))
             /\ call[c].sends = 1
             /\ \A i \in DOMAIN call[c].log : call[c].log[i] # "verifyAccessToken"
             /\ call[c].decoded = None /\ call[c].err = None
             /\ call[c].reqUser = None /\ ~call[c].next
             /\ call[c].stages = <<"Unauthenticated", "Rejected">>

(* an access token that would verify was sent after 'Bearer' without the space *)
C12_Witness ==
    \E c \in Calls :
        /\ Gated(c) /\ Answered(c)
        /\ call[c].in.authorization # None
        /\ call[c].in.authorization[1].lead = <<"B", "e", "a", "r", "e", "r">>
        /\ call[c].in.by = "generateAccessToken"
        /\ call[c].at < call[c].in.authorization[1].token.payload.exp
        /\ call[c].resp[1].body.code = "NO_TOKEN"

(* the credential the gate verifies: what follows the seven characters 'Bearer ' *)
Presented(c) ==
    IF call[c].in.authorization[1].lead = BearerPrefix
    THEN call[c].in.authorization[1].token
    ELSE NotAToken

(* the credential has the structure of a token and the signature of the access secret *)
WellSigned(token) == token.wellFormed /\ token.sig = cfg.accessSecret

(* C13: the authentication gate tells an expired token from a malformed one: a  *)
(* well-signed token past its expiry is answered TOKEN_EXPIRED, a credential    *)
(* with an invalid signature or structure INVALID_TOKEN, never the other way    *)
(* round, and neither attaches an identity nor calls the next handler.          *)
C13_ExpiredAndMalformedDistinct ==
    \A c \in Calls :
        ( Gated(c) /\ ~NoBearerPrefix(c) )
          => /\ ( WellSigned(Presented(c)) /\ call[c].at >= Presented(c).payload.exp )
                   => /\ call[c].resp = Some(Response(401,
                            ErrorBody("Token expired", "TOKEN_EXPIRED")))
                      /\ call[c].reqUser = None /\ ~call[c].next
             /\ ~WellSigned(Presented(c))
                   => /\ call[c].resp = Some(Response(401,
                            ErrorBody("Invalid token", "INVALID_TOKEN")))
                      /\ call[c].reqUser = None /\ ~call[c].next
             /\ ( call[c].resp # None /\ call[c].resp[1].http = 401
                  /\ call[c].resp[1].body.code = "TOKEN_EXPIRED" )
                   => WellSigned(Presented(c))
             /\ ( call[c].resp # None /\ call[c].resp[1].http = 401
                  /\ call[c].resp[1].body.code = "INVALID_TOKEN" )
                   => ~WellSigned(Presented(c))

(* the access token of the login was presented after it had expired *)
C13_Witness ==
    \E c \in Calls :
        /\ Gated(c) /\ Answered(c) /\ ~NoBearerPrefix(c)
        /\ call[c].in.by = "generateAccessToken"
        /\ call[c].in.authorization[1].lead = BearerPrefix
        /\ call[c].at >= call[c].in.authorization[1].token.payload.exp
        /\ call[c].resp[1].body.code = "TOKEN_EXPIRED"

IdentityFields ==
    {"userId", "username", "email", "roleId", "roleName", "municipalityId"}

(* C14: whenever the authentication gate calls the next handler, the identity    *)
(* attached has exactly the fields userId, username, email, roleId, roleName and *)
(* municipalityId, each copied from the verified token; neither a password hash  *)
(* nor the token's type or expiry is in it, nor a password hash in the token.    *)
C14_IdentityContextHasSixFields ==
    \A c \in Calls :
        ( Gated(c) /\ call[c].next )
          => /\ call[c].reqUser # None
             /\ Keys(call[c].reqUser[1]) = IdentityFields
             /\ \A f \in IdentityFields :
                   call[c].reqUser[1][f] = Some(Presented(c).payload[f])
             /\ Keys(Presented(c).payload)
                  = IdentityFields \cup {"type", "iat", "exp"}

(* a token issued at login, from a directory row that holds a password hash, *)
(* passed the gate                                                           *)
C14_Witness ==
    \E c \in Calls :
        /\ call[c].op = "logout" /\ call[c].next
        /\ Presented(c).payload.iat = 0
        /\ call[c].reqUser[1].municipalityId = Some(Some(1))
        /\ \E k \in DOMAIN users :
              /\ users[k].id = Presented(c).payload.userId
              /\ "password_hash" \in Keys(users[k])

(* the request of slot c got as far as authorize *)
ReachedAuthorize(c) ==
    /\ call[c].op = "resource"
    /\ \/ ~call[c].in.route.authenticated
       \/ \E i \in DOMAIN call[c].stages : call[c].stages[i] = "TokenVerified"

(* the role names the route of slot c was registered with, as a set *)
AllowedSet(c) ==
    LET allowed == call[c].in.route.allowedRoles
    IN  IF allowed.array THEN { allowed.value[i] : i \in DOMAIN allowed.value }
        ELSE { allowed.value }

(* the role name of the identity attached to the request of slot c is allowed *)
RoleAdmitted(c) ==
    /\ call[c].reqUser # None
    /\ call[c].reqUser[1].roleName # None
    /\ call[c].reqUser[1].roleName[1] # None
    /\ call[c].reqUser[1].roleName[1][1] \in AllowedSet(c)

HandlerInvoked(c) ==
    \E i \in DOMAIN call[c].stages : call[c].stages[i] = "Handler"

(* C15: for the roles the route was registered with (one role is a set of one),  *)
(* authorize answers 401 NOT_AUTHENTICATED when no identity is attached, 403     *)
(* FORBIDDEN when the identity's roleName is not one of them, and calls the next *)
(* handler exactly when an identity is attached and its roleName is one of them. *)
C15_AuthorizeDecision ==
    \A c \in Calls :
        ReachedAuthorize(c)
          => /\ call[c].reqUser = None
                   => call[c].resp = Some(Response(401,
                         ErrorBody("Authentication required", "NOT_AUTHENTICATED")))
             /\ ( call[c].reqUser # None /\ ~RoleAdmitted(c) )
                   => Rejected(c, 403, "FORBIDDEN")
             /\ HandlerInvoked(c) <=> RoleAdmitted(c)
             /\ call[c].next <=> RoleAdmitted(c)

(* a route registered with the single role name 'admin' let an admin through *)
C15_Witness ==
    \E c \in Calls :
        /\ ReachedAuthorize(c) /\ HandlerInvoked(c)
        /\ ~call[c].in.route.allowedRoles.array
        /\ call[c].reqUser[1].roleName = Some(Some("admin"))

(* C16: the 403 response of authorize names the roles required and the role of *)
(* the requester, next to status, message and code, and nothing else of the    *)
(* identity (no user id, username, email, role id or municipality id).         *)
C16_ForbiddenSurfacesRolesOnly ==
    \A c \in Calls :
        ( call[c].op = "resource" /\ call[c].resp # None /\ call[c].resp[1].http = 403 )
          => LET body == call[c].resp[1].body
             IN  /\ Keys(body) = {"status", "message", "code", "requiredRoles", "userRole"}
                 /\ body.status = "error"
                 /\ body.code = "FORBIDDEN"
                 /\ body.message = "Access denied. Insufficient permissions."
                 /\ { body.requiredRoles[i] : i \in DOMAIN body.requiredRoles }
                      = AllowedSet(c)
                 /\ body.userRole = call[c].reqUser[1].roleName
                 /\ body.userRole = Some(Presented(c).payload.roleName)

(* a viewer was refused on the route of the admins *)
C16_Witness ==
    \E c \in Calls :
        /\ call[c].op = "resource" /\ Answered(c)
        /\ call[c].resp[1].http = 403
        /\ call[c].resp[1].body.requiredRoles = <<"admin">>
        /\ call[c].resp[1].body.userRole = Some(Some("viewer"))

(* the stages of a request through authenticate and authorize, in their order *)
StageOrder == <<"Unauthenticated", "TokenExtracted", "TokenVerified", "RoleChecked">>

IsPrefix(s, t) == Len(s) <= Len(t) /\ SubSeq(t, 1, Len(s)) = s

(* C17: a request through authenticate and authorize passes the stages            *)
(* Unauthenticated, TokenExtracted, TokenVerified, RoleChecked in this order and  *)
(* ends in exactly one outcome: the handler is invoked, only after all four       *)
(* stages, with a verified access token and an admitted role, or one rejection    *)
(* is sent; never both, never neither, and never a second response.               *)
C17_GateStagesAndOneOutcome ==
    \A c \in Calls :
        call[c].op = "resource"
          => LET stages == call[c].stages
                 passed == SubSeq(stages, 1, Len(stages) - 1)
                 outcome == stages[Len(stages)]
             IN  /\ Len(stages) >= 2
                 /\ IsPrefix(passed, StageOrder)
                 /\ outcome \in {"Handler", "Rejected"}
                 /\ call[c].sends = 1
                 /\ outcome = "Handler"
                       => /\ passed = StageOrder
                          /\ call[c].in.route.authenticated
                          /\ WellSigned(Presented(c))
                          /\ Presented(c).payload.type = "access"
                          /\ call[c].at < Presented(c).payload.exp
                          /\ RoleAdmitted(c)
                          /\ call[c].resp = Some(Response(200, [status |-> "success"]))
                 /\ outcome = "Rejected"
                       => /\ call[c].resp[1].body.status = "error"
                          /\ call[c].resp[1].http \in {401, 403}

(* a request passed all four stages and reached the handler of a route *)
(* registered with an array of roles                                   *)
C17_Witness ==
    \E c \in Calls :
        /\ call[c].op = "resource"
        /\ call[c].in.route.allowedRoles.array
        /\ call[c].stages = StageOrder \o <<"Handler">>
        /\ call[c].sends = 1

---------------------------------------------------------------------------
(* Sanitized identity *)

(* slot c holds a successful answer of register, login or me *)
IdentityReturned(c) ==
    /\ call[c].op \in {"register", "login", "me"}
    /\ Answered(c)
    /\ call[c].resp[1].http \in {200, 201}

(* the directory read the identity of slot c came from *)
ReadBy(c, read) == \E i \in DOMAIN call[c].log : call[c].log[i] = read

(* C18: the identity in every successful register, login and me response has no *)
(* password_hash field, whichever directory read produced the record: findById  *)
(* for register and me, findByEmail or findByUsername for login.  The records  *)
(* of the login reads carry the hash, those of findById do not select it.       *)
C18_NoPasswordHashInResponses ==
    \A c \in Calls :
        IdentityReturned(c)
          => /\ call[c].resp[1].body.status = "success"
             /\ "user" \in Keys(call[c].resp[1].body.data)
             /\ "password_hash" \notin Keys(call[c].resp[1].body.data.user)
             /\ call[c].user # None
             /\ call[c].resp[1].body.data.user.id = call[c].user[1].id
             /\ \/ /\ call[c].op \in {"register", "me"}
                   /\ ReadBy(c, "findById")
                   /\ "password_hash" \notin Keys(call[c].user[1])
                \/ /\ call[c].op = "login"
                   /\ ReadBy(c, "findByEmail")
                   /\ "password_hash" \in Keys(call[c].user[1])

(* a login by username succeeded: the record came from findByUsername *)
C18_Witness ==
    \E c \in Calls :
        /\ IdentityReturned(c)
        /\ call[c].op = "login"
        /\ ReadBy(c, "findByUsername")
        /\ "password_hash" \in Keys(call[c].user[1])
        /\ "password_hash" \notin Keys(call[c].resp[1].body.data.user)

(* a profile read succeeded: the record came from findById *)
C18_WitnessMe ==
    \E c \in Calls :
        /\ IdentityReturned(c)
        /\ call[c].op = "me"
        /\ ReadBy(c, "findById")

(* a registration succeeded: the record came from findById *)
C18_WitnessRegister ==
    \E c \in Calls :
        /\ IdentityReturned(c)
        /\ call[c].op = "register"
        /\ ReadBy(c, "findById")

(* a login by email succeeded: the record came from findByEmail alone *)
C18_WitnessEmail ==
    \E c \in Calls :
        /\ IdentityReturned(c)
        /\ call[c].op = "login"
        /\ ~ReadBy(c, "findByUsername")

(* the step of slot c is the one in which login calls sanitizeUser and answers 200 *)
SanitizeActs(c) ==
    /\ call[c].op = "login" /\ call[c].pc = "updateLastLogin"
    /\ call'[c].op = "login" /\ call'[c].pc = "done"
    /\ call'[c].resp # None /\ call'[c].resp[1].http = 200

(* C19: sanitizeUser returns a copy without the password hash and leaves its    *)
(* argument as it was: after the call the record read from the directory still  *)
(* carries its password_hash and every other field unchanged, and the object    *)
(* returned has the fields of the record except password_hash, with the same    *)
(* values.                                                                      *)
C19_SanitizeCopiesAndKeepsOriginal ==
    [][ \A c \in Calls :
          SanitizeActs(c)
            => LET original == call[c].user[1]
                   after    == call'[c].user[1]
                   result   == call'[c].resp[1].body.data.user
               IN  /\ "password_hash" \in Keys(original)
                   /\ after = original
                   /\ Keys(result) = Keys(original) \ {"password_hash"}
                   /\ \A k \in Keys(result) : result[k] = original[k] ]_vars

(* a login was answered with an identity without the hash while the record the *)
(* service holds still carries it                                              *)
C19_Witness ==
    \E c \in Calls :
        /\ call[c].op = "login" /\ Answered(c)
        /\ call[c].resp[1].http = 200
        /\ call[c].user # None
        /\ call[c].user[1].password_hash \in
               { hashPassword(RegisteredPassword(call[c].user[1].username), salt) : salt \in Salts }
        /\ Keys(call[c].resp[1].body.data.user) = Keys(call[c].user[1]) \ {"password_hash"}

---------------------------------------------------------------------------
(* Password verification *)

(* the password each account of the accounts slice registers with *)
AccountPassword(username) == IF username = Ann THEN Long1 ELSE Pw2

(* the passwords presented in the accounts slice: all pass isValidPassword *)
AccountPasswords == { body.password : body \in AccountLogins }

(* slot c holds a successful answer of login *)
LoggedIn(c) ==
    /\ call[c].op = "login" /\ Answered(c)
    /\ call[c].resp[1].http = 200

(* C20: for every valid password p, comparePassword(p, hashPassword(p)) is true *)
(* and comparePassword(p', hashPassword(p)) is false for every other valid p';  *)
(* so an account registered with p logs in with p and with no other password.   *)
C20_OnlyRegisteredPasswordVerifies ==
    /\ \A k \in DOMAIN users : \A q \in AccountPasswords :
          comparePassword(q, users[k].password_hash)
              = (q = AccountPassword(users[k].username))
    /\ \A c \in Calls :
          LoggedIn(c) => call[c].in.password = AccountPassword(call[c].user[1].username)

(* the part of C20 that holds: the registered password verifies against the    *)
(* stored hash, whichever salt was drawn, and a login with it succeeds unless   *)
(* the directory fails                                                          *)
C20_RegisteredPasswordVerifies ==
    /\ \A k \in DOMAIN users :
          comparePassword(AccountPassword(users[k].username), users[k].password_hash)
    /\ \A c \in Calls :
          (call[c].op = "login" /\ Answered(c) /\ ~call[c].fault
             /\ call[c].user # None
             /\ call[c].in.password = AccountPassword(call[c].user[1].username))
            => call[c].resp[1].http = 200

(* an account registered with one password was logged into with another one *)
C20_LoggedInWithOtherPassword ==
    \E c \in Calls :
        /\ LoggedIn(c)
        /\ call[c].user[1].username = Ann
        /\ call[c].in.password = Long2
        /\ Long2 # AccountPassword(Ann)
        /\ isValidPassword(Long2)

---------------------------------------------------------------------------
(* Resolution of the login identifier *)

(* the live rows whose email, and whose username, is the identifier of slot c *)
EmailMatches(c) ==
    { k \in DOMAIN users : Live(users[k]) /\ users[k].email = call[c].in.login }

UsernameMatches(c) ==
    { k \in DOMAIN users : Live(users[k]) /\ users[k].username = call[c].in.login }

(* C21: login resolves the identifier as an email first and as a username only *)
(* if no email matches: when findByEmail finds a record, that record is the    *)
(* one the login goes on with, even if another record has the identifier as    *)
(* its username, and findByUsername is not called; findByUsername is called    *)
(* only after findByEmail returned no record, and its record has the           *)
(* identifier as username.                                                     *)
C21_EmailBeforeUsername ==
    [][ \A c \in Calls :
          LoginActs(c)
            => /\ call[c].pc = "findByEmail"
                    => IF EmailMatches(c) # {}
                       THEN /\ call'[c].pc # "findByUsername"
                            /\ call'[c].user # None
                            /\ call'[c].user[1].id \in EmailMatches(c)
                            /\ call'[c].user[1].email = call[c].in.login
                            /\ ~\E i \in DOMAIN call'[c].log :
                                   call'[c].log[i] = "findByUsername"
                       ELSE /\ call'[c].pc = "findByUsername"
                            /\ call'[c].user = None
               /\ call'[c].pc = "findByUsername"
                    => call[c].pc = "findByEmail" /\ EmailMatches(c) = {}
               /\ (call[c].pc = "findByUsername" /\ call'[c].user # None)
                    => /\ call'[c].user[1].id \in UsernameMatches(c)
                       /\ ReadBy(c, "findByEmail")
               /\ (call[c].user # None /\ call'[c].user # None)
                    => call'[c].user[1].id = call[c].user[1].id
               /\ (call'[c].resp # None /\ call'[c].resp[1].http = 200)
                    => call'[c].resp[1].body.data.user.id = call[c].user[1].id ]_vars

(* a login with an identifier that is the email of one live record and the *)
(* username of another was answered with the identity of the email match   *)
C21_Witness ==
    \E c \in Calls :
        /\ LoggedIn(c)
        /\ \E k \in EmailMatches(c) :
              /\ call[c].resp[1].body.data.user.id = k
              /\ UsernameMatches(c) \ {k} # {}
        /\ ~ReadBy(c, "findByUsername")

(* the identifier matched no email and the login went on with the record that *)
(* has it as username                                                         *)
C21_WitnessUsername ==
    \E c \in Calls :
        /\ LoggedIn(c)
        /\ EmailMatches(c) = {}
        /\ ReadBy(c, "findByUsername")
        /\ call[c].resp[1].body.data.user.id \in UsernameMatches(c)

---------------------------------------------------------------------------
(* Duplicate registrations *)

DuplicateEmail ==
    Response(400, ErrorBody("Email already registered", "DUPLICATE_USER"))

DuplicateUsername ==
    Response(400, ErrorBody("Username already taken", "DUPLICATE_USER"))

(* C22: the existence checks answer what the directory holds, and once both have *)
(* answered, a candidate whose email and username both exist is rejected with    *)
(* 'Email already registered', not 'Username already taken'; 'Username already   *)
(* taken' is the answer only when the username exists and the email does not;    *)
(* when neither exists the registration goes on.                                 *)
C22_DuplicateEmailTakesPrecedence ==
    [][ \A c \in Calls :
          ( RegisterActs(c) /\ call[c].pc = "exists" /\ ~call'[c].fault )
            => LET e == call'[c].emailExists
                   u == call'[c].usernameExists
               IN  /\ ( call[c].emailExists = None /\ e # None )
                          => e[1] = EmailTaken(c)
                   /\ ( call[c].usernameExists = None /\ u # None )
                          => u[1] = UsernameTaken(c)
                   /\ ( e = None \/ u = None )
                          => call'[c].pc = "exists" /\ call'[c].resp = None
                   /\ ( e = Some(TRUE) /\ u = Some(TRUE) )
                          => call'[c].resp = Some(DuplicateEmail)
                   /\ ( e = Some(TRUE) /\ u = Some(FALSE) )
                          => call'[c].resp = Some(DuplicateEmail)
                   /\ ( e = Some(FALSE) /\ u = Some(TRUE) )
                          => call'[c].resp = Some(DuplicateUsername)
                   /\ ( e = Some(FALSE) /\ u = Some(FALSE) )
                          => call'[c].pc = "hash" /\ call'[c].resp = None ]_vars

(* a candidate whose email is held by one live record and whose username is held *)
(* by a live record was answered 'Email already registered'                     *)
C22_Witness ==
    \E c \in Calls :
        /\ call[c].op = "register" /\ Answered(c)
        /\ call[c].emailExists = Some(TRUE) /\ call[c].usernameExists = Some(TRUE)
        /\ call[c].resp = Some(DuplicateEmail)
        /\ \E k \in DOMAIN users : Live(users[k]) /\ users[k].email = call[c].in.email
        /\ \E k \in DOMAIN users : Live(users[k]) /\ users[k].username = call[c].in.username

(* a candidate whose username alone is held was answered 'Username already taken' *)
C22_WitnessUsername ==
    \E c \in Calls :
        /\ call[c].op = "register" /\ Answered(c)
        /\ call[c].emailExists = Some(FALSE) /\ call[c].usernameExists = Some(TRUE)
        /\ call[c].resp = Some(DuplicateUsername)

---------------------------------------------------------------------------
(* Failures of the directory *)

(* the last directory operation slot c called failed *)
FaultAt(c, operation) ==
    /\ call[c].fault
    /\ call[c].log # <<>>
    /\ call[c].log[Len(call[c].log)] = operation

LoginError == Response(500, ErrorBody("Login failed", "LOGIN_ERROR"))

(* C23: the last-login update is a blocking step of login: when updateLastLogin *)
(* fails after the password was verified, the login is answered with the        *)
(* internal error LOGIN_ERROR, its response carries no access token, no refresh *)
(* token and no identity, and the directory and the tokens the client holds are *)
(* as before; a login is answered 200 only once last_login has been written.    *)
C23_LastLoginUpdateIsBlocking ==
    [][ \A c \in Calls :
          ( call[c].op = "login" /\ call[c].pc = "updateLastLogin"
            /\ call'[c].op = "login" /\ call'[c] # call[c] )
            => /\ ReadBy(c, "comparePassword")
               /\ comparePassword(call[c].in.password, call[c].user[1].password_hash)
               /\ call'[c].pc = "done" /\ call'[c].sends = 1
               /\ call'[c].fault
                     => /\ call'[c].resp = Some(LoginError)
                        /\ Keys(call'[c].resp[1].body) = {"status", "message", "code"}
                        /\ users' = users
                        /\ held' = held
               /\ call'[c].resp[1].http = 200
                     => /\ ~call'[c].fault
                        /\ \A k \in DOMAIN users' :
                              users'[k].id = call[c].user[1].id
                                 => users'[k].last_login = Some(now) ]_vars

(* a login with the registered password of an active account failed at the *)
(* update of last_login                                                    *)
C23_Witness ==
    \E c \in Calls :
        /\ call[c].op = "login" /\ FaultAt(c, "updateLastLogin")
        /\ call[c].in.password = RegisteredPassword(call[c].user[1].username)
        /\ call[c].user[1].is_active
        /\ call[c].resp[1].body.code = "LOGIN_ERROR"

---------------------------------------------------------------------------
(* The role of a registered identity *)

(* slot c holds a registration whose create has returned *)
Created(c) == call[c].op = "register" /\ call[c].created # None

(* the row create wrote for slot c *)
CreatedRow(c) == users[call[c].created[1].id]

(* C24: register stores the default viewer role (5) when the candidate has no   *)
(* role id, and otherwise exactly the role id the caller supplied; the access   *)
(* token issued carries the role of the re-fetched stored identity.             *)
C24_RoleStoredAsSupplied ==
    \A c \in Calls :
        Created(c)
          => /\ CreatedRow(c).role_id = IF call[c].in.roleId = None
                                        THEN DefaultRoleId
                                        ELSE call[c].in.roleId[1]
             /\ ( Answered(c) /\ call[c].resp[1].http = 201 )
                   => /\ call[c].resp[1].body.data.accessToken.payload.roleId
                            = call[c].user[1].role_id
                      /\ call[c].user[1].role_id = CreatedRow(c).role_id

(* the part of C24 that holds: the stored role id is roleId || 5, the default *)
(* also for a supplied role id of 0, and the token carries the role id and    *)
(* role name of the record read back                                          *)
C24_RoleStoredOrDefault ==
    \A c \in Calls :
        Created(c)
          => /\ CreatedRow(c).role_id = IF call[c].in.roleId \in {None, Some(0)}
                                        THEN DefaultRoleId
                                        ELSE call[c].in.roleId[1]
             /\ ( Answered(c) /\ call[c].resp[1].http = 201 )
                   => LET payload == call[c].resp[1].body.data.accessToken.payload
                      IN  /\ payload.roleId = call[c].user[1].role_id
                          /\ payload.roleName = call[c].user[1].role_name
                          /\ call[c].user[1].role_id = CreatedRow(c).role_id
                          /\ call[c].resp[1].body.data.user.role_id = CreatedRow(c).role_id

(* a registration that supplied role id 0 was answered 201 with a viewer token *)
C24_RegisteredWithDefaultInsteadOfSupplied ==
    \E c \in Calls :
        /\ Created(c) /\ Answered(c)
        /\ call[c].resp[1].http = 201
        /\ call[c].in.roleId = Some(0)
        /\ CreatedRow(c).role_id = DefaultRoleId
        /\ call[c].resp[1].body.data.accessToken.payload.roleName = Some("viewer")

(* registrations without a role id and with role id 1 stored 5 and 1 *)
C24_RegisteredWithSuppliedRole ==
    \E c \in Calls :
        /\ Created(c) /\ Answered(c)
        /\ call[c].resp[1].http = 201
        /\ call[c].in.roleId = Some(1)
        /\ CreatedRow(c).role_id = 1
        /\ call[c].resp[1].body.data.accessToken.payload.roleName = Some("admin")

(* the internal-failure response of each endpoint *)
InternalError(op) ==
    IF op = "login" THEN LoginError
    ELSE IF op = "register"
    THEN Response(500, ErrorBody("Registration failed", "REGISTRATION_ERROR"))
    ELSE Response(500, ErrorBody("Token refresh failed", "REFRESH_ERROR"))

(* no directory operation was called twice by the request *)
CalledOnce(log) == \A i, j \in DOMAIN log : log[i] = log[j] => i = j

(* C25: a directory fault during login, register or refresh ends the request at *)
(* once, with nothing called after the failed operation and no operation called *)
(* twice, and is answered with one response, the internal-failure code of the   *)
(* endpoint (LOGIN_ERROR, REGISTRATION_ERROR, REFRESH_ERROR) and status 500:     *)
(* never AUTHENTICATION_FAILED, DUPLICATE_USER, REFRESH_FAILED or a success.     *)
C25_DirectoryFaultIsInternalError ==
    \A c \in Calls :
        call[c].op \in {"login", "register", "refresh"}
          => /\ CalledOnce(call[c].log)
             /\ call[c].fault
                   => /\ Answered(c)
                      /\ call[c].sends = 1
                      /\ call[c].err = Some(DirectoryFault)
                      /\ call[c].resp = Some(InternalError(call[c].op))
                      /\ call[c].resp[1].http = 500
                      /\ call[c].resp[1].body.code \in
                            {"LOGIN_ERROR", "REGISTRATION_ERROR", "REFRESH_ERROR"}
                      /\ Keys(call[c].resp[1].body) = {"status", "message", "code"}
                      /\ \E operation \in {"emailExists", "usernameExists", "create",
                                           "findById", "findByEmail", "findByUsername",
                                           "updateLastLogin"} :
                            FaultAt(c, operation)

(* a refresh with a valid token failed at findById and was answered REFRESH_ERROR *)
C25_Witness ==
    \E c \in Calls :
        /\ call[c].op = "refresh" /\ FaultAt(c, "findById")
        /\ call[c].resp[1].body.code = "REFRESH_ERROR"

(* a registration failed at usernameExists after emailExists had answered *)
C25_WitnessRegister ==
    \E c \in Calls :
        /\ call[c].op = "register" /\ FaultAt(c, "usernameExists")
        /\ call[c].emailExists # None
        /\ call[c].resp[1].body.code = "REGISTRATION_ERROR"

(* a login failed at findByUsername and was answered LOGIN_ERROR *)
C25_WitnessLogin ==
    \E c \in Calls :
        /\ call[c].op = "login" /\ FaultAt(c, "findByUsername")
        /\ call[c].resp[1].body.code = "LOGIN_ERROR"

---------------------------------------------------------------------------
(* Side effects of login *)

(* slot c takes a step of a login, answered by the directory or not *)
LoginMoves(c) ==
    /\ call[c].op = "login" /\ call[c].pc # "done"
    /\ call'[c].op = "login" /\ call'[c] # call[c]

(* C26: a failed login has no side effects: updateLastLogin is called only after *)
(* the identity was found, was active and the password verified; a login that    *)
(* ends with an unknown identifier, an inactive account or a wrong password      *)
(* leaves the directory unchanged and issues no token.                           *)
C26_FailedLoginHasNoSideEffects ==
    [][ \A c \in Calls :
          LoginMoves(c)
            => /\ ( users' # users
                    \/ \E i \in DOMAIN call'[c].log : call'[c].log[i] = "updateLastLogin" )
                     => /\ call[c].pc = "updateLastLogin"
                        /\ call[c].user # None
                        /\ call[c].user[1].is_active
                        /\ comparePassword(call[c].in.password,
                                           call[c].user[1].password_hash)
                        /\ \A k \in DOMAIN users :
                              users[k].id # call[c].user[1].id => users'[k] = users[k]
               /\ ( call'[c].resp # None /\ call'[c].resp[1].http # 200 )
                     => /\ users' = users
                        /\ held' = held
                        /\ "data" \notin Keys(call'[c].resp[1].body)
               /\ ( call'[c].resp # None /\ call'[c].resp[1].http = 401 )
                     => /\ call'[c].resp[1].body.code = "AUTHENTICATION_FAILED"
                        /\ \/ call[c].pc = "findByUsername" /\ UsernameMatches(c) = {}
                           \/ call'[c].user # None /\ ~call'[c].user[1].is_active
                           \/ /\ call[c].pc = "compare"
                              /\ ~comparePassword(call[c].in.password,
                                                  call[c].user[1].password_hash) ]_vars

(* a login with a wrong password for an active account was refused, and the *)
(* account has never been logged into                                       *)
C26_Witness ==
    \E c \in Calls :
        /\ call[c].op = "login" /\ Answered(c)
        /\ call[c].resp[1].http = 401
        /\ ReadBy(c, "comparePassword")
        /\ call[c].in.password # RegisteredPassword(call[c].user[1].username)
        /\ users[call[c].user[1].id].last_login = None
        /\ held = [accessToken |-> None, refreshToken |-> None]

---------------------------------------------------------------------------
(* Registration across create and re-fetch *)

(* C27: register is not atomic across create and the re-fetch: when findById    *)
(* faults, or returns no record because the row was soft-deleted in between,    *)
(* the registration is answered with the internal error REGISTRATION_ERROR and  *)
(* issues no token, and the row create wrote stays as it is; while that row is  *)
(* not deleted, the existence checks of a later registration with its email or  *)
(* username answer true and that registration creates nothing.                  *)
C27_CreateIsNotRolledBack ==
    [][ \A c \in Calls :
          RegisterActs(c)
            => /\ call[c].pc = "findById"
                     => LET row == users[call[c].created[1].id]
                        IN  /\ users' = users
                            /\ row.email = call[c].in.email
                            /\ row.username = call[c].in.username
                            /\ call'[c].pc = "done"
                            /\ IF call'[c].fault \/ ~Live(row)
                               THEN /\ call'[c].resp = Some(InternalError("register"))
                                    /\ "data" \notin Keys(call'[c].resp[1].body)
                                    /\ held' = held
                               ELSE call'[c].resp[1].http = 201
               /\ ( call[c].pc = "exists" /\ ~call'[c].fault )
                     => /\ ( call[c].emailExists = None /\ call'[c].emailExists # None
                             /\ EmailTaken(c) )
                               => call'[c].emailExists = Some(TRUE)
                        /\ ( call[c].usernameExists = None
                             /\ call'[c].usernameExists # None /\ UsernameTaken(c) )
                               => call'[c].usernameExists = Some(TRUE)
                        /\ SawDuplicate(call'[c])
                               => /\ call'[c].pc \in {"exists", "done"}
                                  /\ call'[c].created = None
                                  /\ users' = users
                                  /\ call'[c].pc = "done"
                                        => call'[c].resp[1].body.code = "DUPLICATE_USER" ]_vars

(* a registration was refused as a duplicate of a live row although no          *)
(* registration or login has ever handed out a token: the row is what a failed  *)
(* registration left behind                                                     *)
C27_Witness ==
    \E c \in Calls :
        /\ call[c].op = "register" /\ Answered(c)
        /\ call[c].resp[1].http = 400
        /\ SawDuplicate(call[c])
        /\ call[c].resp[1].body.code = "DUPLICATE_USER"
        /\ held = [accessToken |-> None, refreshToken |-> None]
        /\ \E k \in DOMAIN users :
              /\ Live(users[k])
              /\ users[k].email = call[c].in.email \/ users[k].username = call[c].in.username

(* the re-fetch returned no record: the row was soft-deleted after create *)
C27_WitnessSoftDeleted ==
    \E c \in Calls :
        /\ Created(c) /\ Answered(c) /\ ~call[c].fault
        /\ call[c].err = Some(NullDereference)
        /\ call[c].resp = Some(InternalError("register"))
        /\ ~Live(CreatedRow(c))

(* the re-fetch faulted and the row is still there *)
C27_WitnessFault ==
    \E c \in Calls :
        /\ Created(c) /\ FaultAt(c, "findById")
        /\ Live(CreatedRow(c))
        /\ held = [accessToken |-> None, refreshToken |-> None]

=============================================================================
